---- MODULE Spec2Model ----
(***************************************************************************)
(* A model of claude-daily's two log pipelines:                            *)
(*   - the conversation reconstructor (src/server/handlers.rs,             *)
(*     parse_transcript_to_conversation), and                              *)
(*   - the pricing resolver (src/usage/pricing.rs: get_model_pricing,      *)
(*     calculate_cost, tiered_cost, PricingData::load).                    *)
(*                                                                         *)
(* Conventions.                                                            *)
(*   Option<T>      <<>> is None, <<v>> is Some(v).                        *)
(*   long strings   a tool result's text and the string leaves of a tool   *)
(*                  input are kept as their character count (truncation    *)
(*                  only looks at the count).                              *)
(*   model names    sequences of one-character strings, so that prefixing, *)
(*                  lower-casing and substring search are computed.        *)
(*   f64 costs      integers: rates are in units per token, exact.         *)
(***************************************************************************)
EXTENDS Integers, Sequences, FiniteSets, TLC

VARIABLES
    \* ---- parse_transcript_to_conversation (handlers.rs:745-977)
    log,                          \* the lines of the transcript file
    page, page_size,              \* the call's arguments
    pc,                           \* position in the function
    idx,                          \* 1-based index of the next line to read
    conversation_messages,        \* handlers.rs:755
    tool_results,                 \* handlers.rs:757
    current_assistant_blocks,     \* handlers.rs:761
    current_assistant_timestamp,  \* handlers.rs:762
    final_messages,               \* handlers.rs:929
    dto,                          \* the ConversationDto returned
    \* ---- PricingData::calculate_cost / get_model_pricing (pricing.rs:157-247)
    models,                       \* PricingData.models: the catalog
    query,                        \* the last call's arguments
    resolved,                     \* the key get_model_pricing picked (Option)
    cost,                         \* the value calculate_cost returned (Option)
    \* ---- PricingData::load (pricing.rs:46-75)
    load_pc,                      \* position in load: before, at the await, after
    response,                     \* what the request to LiteLLM came back with
    config_dir,                   \* dirs::config_dir() is Some (pricing.rs:112)
    cache_file,                   \* pricing_cache.json: absent, or its content
    embedded,                     \* litellm_pricing.json compiled into the binary
    consulted,                    \* the sources load has consulted, in order
    save_result,                  \* what save_cache returned to load (Option)
    \* ---- several processes in PricingData::load (pricing.rs:46-136)
    disk,                         \* pricing_cache.json as the processes share it
    proc,                         \* each process: its position and its locals
    \* ---- parse_session_file (scanner.rs:180-272)
    session_log,                  \* the lines of the session file
    can_open,                     \* File::open succeeds (scanner.rs:181)
    scan_pc,                      \* position in the function
    scan_idx,                     \* 1-based index of the next line to read
    usage,                        \* scanner.rs:184
    found_any,                    \* scanner.rs:189
    scanned,                      \* the Option<SessionUsage> returned
    \* ---- scan_all_sessions (scanner.rs:12-44)
    projects_dir,                 \* ~/.claude/projects: no home, missing, present
    tree,                         \* the files under projects_dir
    session_ids,                  \* the argument: Option of the allowed ids
    jsonl_files,                  \* scanner.rs:22
    file_idx,                     \* 1-based index of the next path of the loop
    result,                       \* scanner.rs:23
    all_pc,                       \* position in the function
    \* ---- aggregate_usage (scanner.rs:50-151)
    session_usages,               \* the argument: session_id -> SessionUsage
    date_filter,                  \* the argument: Option of the allowed dates
    agg_pc,                       \* position in the function
    visited,                      \* the sessions the loop has been through
    agg_totals,                   \* scanner.rs:54-59
    model_counts,                 \* scanner.rs:60
    daily_map,                    \* scanner.rs:61
    summary,                      \* the UsageSummary returned (Option)
    \* ---- get_session_conversation (handlers.rs:564-623)
    request,                      \* the session, its transcript and the query
    api_response                  \* the ApiResponse sent (Option)

handlerVars == <<request, api_response>>
convVars == <<log, page, page_size, pc, idx, conversation_messages, tool_results,
              current_assistant_blocks, current_assistant_timestamp,
              final_messages, dto, handlerVars>>
priceVars == <<models, query, resolved, cost>>
cacheVars == <<disk, proc>>
loadVars == <<load_pc, response, config_dir, cache_file, embedded, consulted,
              save_result, cacheVars>>
allVars == <<projects_dir, tree, session_ids, jsonl_files, file_idx, result, all_pc>>
scanVars == <<session_log, can_open, scan_pc, scan_idx, usage, found_any, scanned,
              allVars>>
aggVars == <<session_usages, date_filter, agg_pc, visited, agg_totals, model_counts,
             daily_map, summary>>

(***************************************************************************)
(* Bounds of the model.                                                    *)
(***************************************************************************)
\* longest transcript (in lines) of the reconstruction runs
MaxLen == 3
\* width of usize in bits, scaled down from 32/64 so that overflow is reachable
WordBits == 3
\* most messages of a transcript in the pagination runs
MaxMsgs == 3

(***************************************************************************)
(* Program constants.                                                      *)
(***************************************************************************)
\* handlers.rs:834, 885, 984: the character budget of a string
MaxStrLen == 500

None == <<>>
Some(v) == <<v>>
IsSome(o) == Len(o) = 1
Unwrap(o) == o[1]
UnwrapOr(o, d) == IF Len(o) = 1 THEN o[1] ELSE d
Min(a, b) == IF a <= b THEN a ELSE b

\* usize arithmetic
WordSize == 2 ^ WordBits
Words == 0 .. (WordSize - 1)

(***************************************************************************)
(* The transcript file: JSON values of a line.                             *)
(***************************************************************************)
\* message.content / content: a string, an array of blocks, or another value
StrContent(t) == [kind |-> "string", text |-> t, blocks |-> <<>>]
ArrContent(bs) == [kind |-> "array", text |-> "", blocks |-> bs]
OtherContent == [kind |-> "other", text |-> "", blocks |-> <<>>]

\* the "content" of a tool_result block: a string (n characters), an array of
\* text blocks (their character counts), or absent/another value
ResString(n) == [kind |-> "string", n |-> n, texts |-> <<>>]
ResArray(ts) == [kind |-> "array", n |-> 0, texts |-> ts]
ResOther == [kind |-> "other", n |-> 0, texts |-> <<>>]

\* one element of a content array
JBlock(type, text, id, name, input, tool_use_id, content) ==
    [type |-> type, text |-> text, id |-> id, name |-> name, input |-> input,
     tool_use_id |-> tool_use_id, content |-> content]
TextJ(t) == JBlock(Some("text"), Some(t), None, None, None, None, ResOther)
ThinkingJ == JBlock(Some("thinking"), None, None, None, None, None, ResOther)
ToolUseJ(id, name, input) == JBlock(Some("tool_use"), None, id, name, input, None, ResOther)
ToolResultJ(id, content) == JBlock(Some("tool_result"), None, None, None, None, id, content)

\* one line of the file
Entry(type, role, ts, mcontent, content) ==
    [kind |-> "json", type |-> type, role |-> role, timestamp |-> ts,
     message_content |-> mcontent, content |-> content]
NonJson(kind) ==
    [kind |-> kind, type |-> None, role |-> None, timestamp |-> None,
     message_content |-> None, content |-> None]
\* a line of white space only
BlankLine == NonJson("blank")
\* a line serde_json::from_str rejects
InvalidLine == NonJson("invalid")
\* a line BufRead::lines fails on (not UTF-8, read error)
UnreadableLine == NonJson("unreadable")

(***************************************************************************)
(* The lines the runs draw transcripts from.                               *)
(***************************************************************************)
LUserText == Entry(Some("user"), None, Some("T1"), Some(StrContent("hi")), None)
LHumanBlank == Entry(None, Some("human"), None, None, Some(StrContent(" ")))
LResult1 ==
    Entry(Some("user"), None, Some("T2"),
          Some(ArrContent(<<ToolResultJ(Some("t1"), ResString(2))>>)), None)
LResult2 ==
    Entry(Some("user"), None, None,
          Some(ArrContent(<<ToolResultJ(Some("t2"), ResArray(<<300, 300>>)),
                            TextJ("x"),
                            ToolResultJ(Some("t3"), ResOther),
                            ToolResultJ(None, ResString(7))>>)), None)
LAsstUse1 ==
    Entry(Some("assistant"), None, Some("T3"),
          Some(ArrContent(<<TextJ("a"), ToolUseJ(Some("t1"), Some("Bash"), Some(<<3, 501>>))>>)),
          None)
LAsstUse12 ==
    Entry(Some("assistant"), None, None,
          Some(ArrContent(<<ToolUseJ(Some("t1"), None, None), ThinkingJ,
                            ToolUseJ(Some("t2"), Some("Read"), Some(<<4>>)), TextJ(" ")>>)),
          None)
LAsstString == Entry(None, Some("assistant"), Some("T4"), None, Some(StrContent("b")))
LAsstThinking ==
    Entry(Some("assistant"), None, Some("T5"), Some(ArrContent(<<ThinkingJ>>)), None)
LOther == Entry(Some("summary"), Some("user"), Some("T6"), None, Some(StrContent("s")))

ConvLines ==
    {LUserText, LHumanBlank, LResult1, LResult2, LAsstUse1, LAsstUse12,
     LAsstString, LAsstThinking, LOther, BlankLine, InvalidLine, UnreadableLine}

RECURSIVE SeqsUpTo(_, _)
SeqsUpTo(S, n) ==
    IF n = 0 THEN {<<>>}
    ELSE LET shorter == SeqsUpTo(S, n - 1)
         IN shorter \cup {Append(s, x) : s \in {t \in shorter : Len(t) = n - 1}, x \in S}

\* the transcripts of the reconstruction runs
ConvLogs == SeqsUpTo(ConvLines, MaxLen)

\* a transcript of n messages: user and assistant turns alternate
RECURSIVE Transcript(_)
Transcript(n) ==
    IF n = 0 THEN <<>>
    ELSE Append(Transcript(n - 1), IF n % 2 = 1 THEN LUserText ELSE LAsstString)

\* the transcripts of the pagination runs: 0..MaxMsgs messages, and three with
\* lines that are skipped, ignored or cannot be read
PageLogs ==
    {Transcript(n) : n \in 0 .. MaxMsgs}
    \cup {<<BlankLine, LUserText, InvalidLine, LAsstUse1, LOther, LResult1>>,
          <<LUserText, UnreadableLine>>}

(***************************************************************************)
(* The reconstructed conversation.                                         *)
(***************************************************************************)
\* ConversationContentBlock (dto.rs)
Text(t) ==
    [type |-> "text", text |-> t, tool_use_id |-> "", name |-> "", input |-> <<>>,
     content |-> 0]
ToolUse(id, name, input) ==
    [type |-> "tool_use", text |-> "", tool_use_id |-> id, name |-> name,
     input |-> input, content |-> 0]
ToolResult(id, content) ==
    [type |-> "tool_result", text |-> "", tool_use_id |-> id, name |-> "",
     input |-> <<>>, content |-> content]
\* ConversationMessage (dto.rs)
Message(role, content, timestamp) ==
    [role |-> role, content |-> content, timestamp |-> timestamp]

\* text.trim().is_empty()
IsBlank(t) == t \in {"", " ", "\n", " \n"}

\* truncate_text_str: at most max_len characters, plus "..." when cut
truncate_text_str(n, max_len) == IF n <= max_len THEN n ELSE max_len + 3

RECURSIVE JoinLen(_)
\* texts.join("\n"): the character count
JoinLen(ts) ==
    IF ts = <<>> THEN 0
    ELSE IF Len(ts) = 1 THEN ts[1]
    ELSE ts[1] + 1 + JoinLen(Tail(ts))

\* extract_tool_result_text
extract_tool_result_text(block) ==
    CASE block.content.kind = "string" -> truncate_text_str(block.content.n, MaxStrLen)
      [] block.content.kind = "array" /\ block.content.texts /= <<>> ->
            truncate_text_str(JoinLen(block.content.texts), MaxStrLen)
      [] OTHER -> 0

\* truncate_json_value: every string leaf of the value, whatever its depth
truncate_json_value(value, max_str_len) ==
    [i \in DOMAIN value |->
        IF value[i] > max_str_len THEN max_str_len + 3 ELSE value[i]]

\* entry.get("type") or else entry.get("role"), or else ""
EntryType(line) ==
    IF IsSome(line.type) THEN Unwrap(line.type)
    ELSE IF IsSome(line.role) THEN Unwrap(line.role)
    ELSE ""

\* entry.get("message").get("content") or else entry.get("content")
ContentVal(line) ==
    IF IsSome(line.message_content) THEN line.message_content ELSE line.content

EmptyMap == [k \in {} |-> 0]
MapInsert(m, k, v) == [x \in DOMAIN m \cup {k} |-> IF x = k THEN v ELSE m[x]]
MapRemove(m, k) == [x \in DOMAIN m \ {k} |-> m[x]]

(***************************************************************************)
(* parse_transcript_to_conversation: the helpers of the line loop.         *)
(***************************************************************************)
\* faulty variant: the pending blocks are copied into the message, not taken
flush_assistant_KeepsBlocks(blocks, ts, messages) ==
    IF blocks /= <<>>
    THEN [blocks |-> blocks, ts |-> None,
          messages |-> Append(messages, Message("assistant", blocks, ts))]
    ELSE [blocks |-> blocks, ts |-> ts, messages |-> messages]

\* flush_assistant (handlers.rs:764-774): pending blocks become one message
flush_assistant(blocks, ts, messages) ==
    IF blocks /= <<>>
    THEN [blocks |-> <<>>, ts |-> None,
          messages |-> Append(messages, Message("assistant", blocks, ts))]
    ELSE [blocks |-> blocks, ts |-> ts, messages |-> messages]

\* faulty variant: a user array is emitted as a message of its tool results
UserMessages_ArrayEmits(line) ==
    LET content_val == IF IsSome(line.message_content)
                       THEN line.message_content ELSE line.content
        kind == IF IsSome(content_val) THEN Unwrap(content_val).kind ELSE "none"
    IN CASE kind = "string" /\ ~IsBlank(Unwrap(content_val).text) ->
                <<Message("user", <<Text(Unwrap(content_val).text)>>, line.timestamp)>>
         [] kind = "array" ->
                <<Message("user",
                          [i \in DOMAIN Unwrap(content_val).blocks |->
                              ToolResult(UnwrapOr(Unwrap(content_val).blocks[i].tool_use_id, ""),
                                         0)],
                          line.timestamp)>>
         [] OTHER -> <<>>

\* handlers.rs:812-823, 840: the message a user/human record emits, if any
UserMessages(line) ==
    LET content_val == ContentVal(line)
        kind == IF IsSome(content_val) THEN Unwrap(content_val).kind ELSE "none"
    IN IF kind = "string" /\ ~IsBlank(Unwrap(content_val).text)
       THEN <<Message("user", <<Text(Unwrap(content_val).text)>>, line.timestamp)>>
       ELSE <<>>

RECURSIVE CollectToolResults(_, _)
\* handlers.rs:826-838: the tool_result blocks of a user array, into the map
CollectToolResults(arr, results) ==
    IF arr = <<>> THEN results
    ELSE LET block == Head(arr)
             block_type == UnwrapOr(block.type, "")
         IN CollectToolResults(
                Tail(arr),
                IF block_type = "tool_result" /\ IsSome(block.tool_use_id)
                THEN MapInsert(results, Unwrap(block.tool_use_id),
                               extract_tool_result_text(block))
                ELSE results)

\* handlers.rs:858-896: what one block of an assistant array pushes
AssistantBlock(block) ==
    LET block_type == UnwrapOr(block.type, "")
    IN CASE block_type = "text" ->
                IF IsSome(block.text) /\ ~IsBlank(Unwrap(block.text))
                THEN <<Text(Unwrap(block.text))>>
                ELSE <<>>
         [] block_type = "tool_use" ->
                <<ToolUse(UnwrapOr(block.id, ""),
                          UnwrapOr(block.name, "unknown"),
                          truncate_json_value(UnwrapOr(block.input, <<>>), MaxStrLen))>>
         [] OTHER -> <<>>

RECURSIVE PushAssistantBlocks(_, _)
\* handlers.rs:855-897: the loop over the blocks of an assistant array
PushAssistantBlocks(blocks, pending) ==
    IF blocks = <<>> THEN pending
    ELSE PushAssistantBlocks(Tail(blocks), pending \o AssistantBlock(Head(blocks)))

(***************************************************************************)
(* The second pass (handlers.rs:928-955).                                  *)
(***************************************************************************)
\* faulty variant: the result is looked up (get) and stays in the map
TakeResult_NoRemove(results, id) ==
    IF id \in DOMAIN results
    THEN [found |-> TRUE, content |-> results[id], results |-> results]
    ELSE [found |-> FALSE, content |-> 0, results |-> results]

\* handlers.rs:939: tool_results.remove(tool_use_id)
TakeResult(results, id) ==
    IF id \in DOMAIN results
    THEN [found |-> TRUE, content |-> results[id], results |-> MapRemove(results, id)]
    ELSE [found |-> FALSE, content |-> 0, results |-> results]

\* faulty variant: a message's results are appended after all of its blocks
PairBlocks_ResultsLast(content, new_content, results) ==
    LET RECURSIVE Go(_, _, _, _)
        Go(rest, kept, found, left) ==
            IF rest = <<>> THEN [content |-> kept \o found, results |-> left]
            ELSE LET block == Head(rest)
                     taken == TakeResult(left, block.tool_use_id)
                 IN IF block.type = "tool_use" /\ taken.found
                    THEN Go(Tail(rest), Append(kept, block),
                            Append(found, ToolResult(block.tool_use_id, taken.content)),
                            taken.results)
                    ELSE Go(Tail(rest), Append(kept, block), found, left)
    IN Go(content, new_content, <<>>, results)

RECURSIVE PairBlocks(_, _, _)
\* handlers.rs:933-946: one assistant message's content, results spliced in
PairBlocks(content, new_content, results) ==
    IF content = <<>> THEN [content |-> new_content, results |-> results]
    ELSE LET block == Head(content)
             pushed == Append(new_content, block)
         IN IF block.type = "tool_use"
            THEN LET taken == TakeResult(results, block.tool_use_id)
                 IN PairBlocks(
                        Tail(content),
                        IF taken.found
                        THEN Append(pushed, ToolResult(block.tool_use_id, taken.content))
                        ELSE pushed,
                        taken.results)
            ELSE PairBlocks(Tail(content), pushed, results)

\* handlers.rs:931-954: what one message becomes
PairMessage(msg, results) ==
    IF msg.role = "assistant"
    THEN LET paired == PairBlocks(msg.content, <<>>, results)
         IN [message |-> Message(msg.role, paired.content, msg.timestamp),
             results |-> paired.results]
    ELSE [message |-> msg, results |-> results]

RECURSIVE PairMessages(_, _, _)
\* handlers.rs:929-955: the loop over conversation_messages
PairMessages(messages, final, results) ==
    IF messages = <<>> THEN [messages |-> final, results |-> results]
    ELSE LET one == PairMessage(Head(messages), results)
         IN PairMessages(Tail(messages), Append(final, one.message), one.results)

(***************************************************************************)
(* Pagination (handlers.rs:957-976), in usize arithmetic.                  *)
(***************************************************************************)
\* handlers.rs:960: page * page_size
PageStart(p, ps) == p * ps
\* handlers.rs:961: start + page_size
PageEndRaw(start, ps) == start + ps
\* an arithmetic result that does not fit usize
Overflows(n) == n >= WordSize
Wrap(n) == n % WordSize

\* handlers.rs:960-976. overflow_checks is the build's overflow-checks setting
\* (on in a debug build, off in a release build): with it an overflowing
\* product or sum panics, without it the result wraps. A slice whose start is
\* beyond its end panics in every build.
PaginateOutcome(msgs, p, ps, overflow_checks) ==
    LET total_entries == Len(msgs)
        start_raw == PageStart(p, ps)
        start == Wrap(start_raw)
        end_raw == PageEndRaw(start, ps)
        end == Min(Wrap(end_raw), total_entries)
        has_more == end < total_entries
    IN IF overflow_checks /\ (Overflows(start_raw) \/ Overflows(end_raw))
       THEN [panic |-> TRUE, messages |-> <<>>, total_entries |-> 0, has_more |-> FALSE]
       ELSE IF start < total_entries /\ start > end
       THEN [panic |-> TRUE, messages |-> <<>>, total_entries |-> 0, has_more |-> FALSE]
       ELSE [panic |-> FALSE,
             messages |-> IF start < total_entries
                          THEN SubSeq(msgs, start + 1, end)
                          ELSE <<>>,
             total_entries |-> total_entries,
             has_more |-> has_more]

\* ConversationDto (dto.rs:364-371)
ConversationDto(messages, total_entries, has_transcript, p, ps, has_more) ==
    [messages |-> messages, total_entries |-> total_entries,
     has_transcript |-> has_transcript, page |-> p, page_size |-> ps,
     has_more |-> has_more]
\* no value returned (yet)
NoDto == ConversationDto(<<>>, 0, FALSE, 0, 0, FALSE)

(***************************************************************************)
(* parse_transcript_to_conversation as a state machine.                    *)
(*   pc: "read" (the line loop), "pair" (the stream ended, the pending     *)
(*   blocks are flushed), "paginate" (the second pass is done), "done"     *)
(*   (Ok returned), "error" (Err returned), "panic".                       *)
(***************************************************************************)
AtLine == pc = "read" /\ idx <= Len(log)
Line == log[idx]
LoopState == <<conversation_messages, tool_results, current_assistant_blocks,
               current_assistant_timestamp>>

\* handlers.rs:777: let line = line?;
FailUnreadable ==
    /\ AtLine /\ Line.kind = "unreadable"
    /\ pc' = "error"
    /\ UNCHANGED <<log, page, page_size, idx, LoopState, final_messages, dto>>
    /\ UNCHANGED <<handlerVars, priceVars, loadVars, scanVars, aggVars>>

\* handlers.rs:778-780
SkipBlank ==
    /\ AtLine /\ Line.kind = "blank"
    /\ idx' = idx + 1
    /\ UNCHANGED <<log, page, page_size, pc, LoopState, final_messages, dto>>
    /\ UNCHANGED <<handlerVars, priceVars, loadVars, scanVars, aggVars>>

\* handlers.rs:782-785
SkipInvalid ==
    /\ AtLine /\ Line.kind = "invalid"
    /\ idx' = idx + 1
    /\ UNCHANGED <<log, page, page_size, pc, LoopState, final_messages, dto>>
    /\ UNCHANGED <<handlerVars, priceVars, loadVars, scanVars, aggVars>>

\* handlers.rs:916-917: file-history-snapshot, summary, ...
SkipOther ==
    /\ AtLine /\ Line.kind = "json"
    /\ EntryType(Line) \notin {"user", "human", "assistant"}
    /\ idx' = idx + 1
    /\ UNCHANGED <<log, page, page_size, pc, LoopState, final_messages, dto>>
    /\ UNCHANGED <<handlerVars, priceVars, loadVars, scanVars, aggVars>>

\* handlers.rs:798-842
ReadUser ==
    /\ AtLine /\ Line.kind = "json"
    /\ EntryType(Line) \in {"user", "human"}
    /\ LET flushed == flush_assistant(current_assistant_blocks,
                                      current_assistant_timestamp,
                                      conversation_messages)
           content_val == ContentVal(Line)
           kind == IF IsSome(content_val) THEN Unwrap(content_val).kind ELSE "none"
       IN /\ current_assistant_blocks' = flushed.blocks
          /\ current_assistant_timestamp' = flushed.ts
          /\ conversation_messages' = flushed.messages \o UserMessages(Line)
          /\ tool_results' =
                IF kind = "array"
                THEN CollectToolResults(Unwrap(content_val).blocks, tool_results)
                ELSE tool_results
    /\ idx' = idx + 1
    /\ UNCHANGED <<log, page, page_size, pc, final_messages, dto>>
    /\ UNCHANGED <<handlerVars, priceVars, loadVars, scanVars, aggVars>>

\* handlers.rs:843-915
ReadAssistant ==
    /\ AtLine /\ Line.kind = "json"
    /\ EntryType(Line) = "assistant"
    /\ LET content_val == ContentVal(Line)
           kind == IF IsSome(content_val) THEN Unwrap(content_val).kind ELSE "none"
       IN /\ current_assistant_timestamp' =
                IF current_assistant_timestamp = None
                THEN Line.timestamp
                ELSE current_assistant_timestamp
          /\ current_assistant_blocks' =
                CASE kind = "array" ->
                        PushAssistantBlocks(Unwrap(content_val).blocks,
                                            current_assistant_blocks)
                  [] kind = "string" /\ ~IsBlank(Unwrap(content_val).text) ->
                        Append(current_assistant_blocks, Text(Unwrap(content_val).text))
                  [] OTHER -> current_assistant_blocks
    /\ idx' = idx + 1
    /\ UNCHANGED <<log, page, page_size, pc, conversation_messages, tool_results,
                   final_messages, dto>>
    /\ UNCHANGED <<handlerVars, priceVars, loadVars, scanVars, aggVars>>

\* handlers.rs:921-926: the stream ended
FlushAtEnd ==
    /\ pc = "read" /\ idx > Len(log)
    /\ LET flushed == flush_assistant(current_assistant_blocks,
                                      current_assistant_timestamp,
                                      conversation_messages)
       IN /\ current_assistant_blocks' = flushed.blocks
          /\ current_assistant_timestamp' = flushed.ts
          /\ conversation_messages' = flushed.messages
    /\ pc' = "pair"
    /\ UNCHANGED <<log, page, page_size, idx, tool_results, final_messages, dto>>
    /\ UNCHANGED <<handlerVars, priceVars, loadVars, scanVars, aggVars>>

\* handlers.rs:928-955
PairToolResults ==
    /\ pc = "pair"
    /\ LET paired == PairMessages(conversation_messages, <<>>, tool_results)
       IN /\ final_messages' = paired.messages
          /\ tool_results' = paired.results
    /\ pc' = "paginate"
    /\ UNCHANGED <<log, page, page_size, idx, conversation_messages,
                   current_assistant_blocks, current_assistant_timestamp, dto>>
    /\ UNCHANGED <<handlerVars, priceVars, loadVars, scanVars, aggVars>>

\* handlers.rs:957-976
Paginate ==
    /\ pc = "paginate"
    /\ \E overflow_checks \in BOOLEAN :
         LET out == PaginateOutcome(final_messages, page, page_size, overflow_checks)
         IN IF out.panic
            THEN pc' = "panic" /\ dto' = dto
            ELSE /\ pc' = "done"
                 /\ dto' = ConversationDto(out.messages, out.total_entries, TRUE,
                                           page, page_size, out.has_more)
    /\ UNCHANGED <<log, page, page_size, idx, LoopState, final_messages>>
    /\ UNCHANGED <<handlerVars, priceVars, loadVars, scanVars, aggVars>>

ConvNext ==
    \/ FailUnreadable
    \/ SkipBlank
    \/ SkipInvalid
    \/ SkipOther
    \/ ReadUser
    \/ ReadAssistant
    \/ FlushAtEnd
    \/ PairToolResults
    \/ Paginate

\* the pricing resolver is idle in the transcript runs
PriceIdle ==
    /\ models = EmptyMap
    /\ query = None
    /\ resolved = None
    /\ cost = None

\* no catalog is being loaded in the transcript and the resolver runs
CacheIdle ==
    /\ disk = None
    /\ proc = <<>>
LoadOff ==
    /\ load_pc = "idle"
    /\ response = None
    /\ config_dir = FALSE
    /\ cache_file = None
    /\ embedded = [valid |-> FALSE, models |-> EmptyMap]
    /\ consulted = <<>>
    /\ save_result = None
LoadIdle == LoadOff /\ CacheIdle

\* SessionUsage (types.rs:6-17), session_id apart
SessionUsage(input, output, cache_creation, cache_read, total_cost, calls, ts) ==
    [input_tokens |-> input, output_tokens |-> output,
     cache_creation_tokens |-> cache_creation, cache_read_tokens |-> cache_read,
     total_cost_usd |-> total_cost, model_calls |-> calls, first_timestamp |-> ts]
\* SessionUsage { session_id, ..Default::default() } (scanner.rs:184-187)
DefaultUsage == SessionUsage(0, 0, 0, 0, 0, EmptyMap, None)

\* the accumulators of aggregate_usage at its entry (scanner.rs:54-59)
Totals(input, output, cache_creation, cache_read, total_cost, sessions) ==
    [total_input |-> input, total_output |-> output,
     total_cache_creation |-> cache_creation, total_cache_read |-> cache_read,
     total_cost |-> total_cost, total_sessions |-> sessions]
\* nothing is aggregated in the other runs
AggIdle ==
    /\ session_usages = EmptyMap
    /\ date_filter = None
    /\ agg_pc = "idle"
    /\ visited = {}
    /\ agg_totals = Totals(0, 0, 0, 0, 0, 0)
    /\ model_counts = EmptyMap
    /\ daily_map = EmptyMap
    /\ summary = None

\* no session file is scanned in the other runs
AllIdle ==
    /\ projects_dir = "missing"
    /\ tree = {}
    /\ session_ids = None
    /\ jsonl_files = <<>>
    /\ file_idx = 1
    /\ result = EmptyMap
    /\ all_pc = "idle"
ScanIdle ==
    /\ session_log = <<>>
    /\ can_open = FALSE
    /\ scan_pc = "idle"
    /\ scan_idx = 1
    /\ usage = DefaultUsage
    /\ found_any = FALSE
    /\ scanned = None
    /\ AllIdle

\* a request: whether read_session succeeds, the session's markdown (its
\* frontmatter and the value of transcript_path in it), whether the transcript
\* exists and can be opened, and the page and page_size parameters as
\* parse().ok() sees them
Request(session_readable, frontmatter, transcript_path, exists, opens, p, ps) ==
    [session_readable |-> session_readable, frontmatter |-> frontmatter,
     transcript_path |-> transcript_path, exists |-> exists, opens |-> opens,
     page |-> p, page_size |-> ps]
\* parse_transcript_to_conversation is called directly in the other runs
HandlerIdle ==
    /\ request = Request(FALSE, FALSE, None, FALSE, FALSE, None, None)
    /\ api_response = None

\* the state at the function's entry, the file opened (handlers.rs:752-762)
ConvStart ==
    /\ pc = "read"
    /\ idx = 1
    /\ conversation_messages = <<>>
    /\ tool_results = EmptyMap
    /\ current_assistant_blocks = <<>>
    /\ current_assistant_timestamp = None
    /\ final_messages = <<>>
    /\ dto = NoDto
    /\ HandlerIdle

\* reconstruction runs: every transcript of at most MaxLen lines, its first page
ConvInit ==
    /\ log \in ConvLogs
    /\ page = 0
    /\ page_size \in {1, 2}
    /\ ConvStart
    /\ PriceIdle
    /\ LoadIdle
    /\ ScanIdle
    /\ AggIdle

\* pagination runs: every page and page_size of the word
PageInit ==
    /\ log \in PageLogs
    /\ page \in Words
    /\ page_size \in Words
    /\ ConvStart
    /\ PriceIdle
    /\ LoadIdle
    /\ ScanIdle
    /\ AggIdle

(***************************************************************************)
(* The pricing resolver (src/usage/pricing.rs).                            *)
(***************************************************************************)
\* pricing.rs:12
TIERED_THRESHOLD == 200000

\* pricing.rs:14-22
PROVIDER_PREFIXES ==
    << <<"a", "n", "t", "h", "r", "o", "p", "i", "c", "/">>,
       <<"c", "l", "a", "u", "d", "e", "-", "3", "-", "5", "-">>,
       <<"c", "l", "a", "u", "d", "e", "-", "3", "-">>,
       <<"c", "l", "a", "u", "d", "e", "-">>,
       <<"o", "p", "e", "n", "a", "i", "/">>,
       <<"a", "z", "u", "r", "e", "/">>,
       <<"o", "p", "e", "n", "r", "o", "u", "t", "e", "r", "/",
         "o", "p", "e", "n", "a", "i", "/">> >>

\* str::to_lowercase, on the ASCII letters
UpperAlpha == <<"A", "B", "C", "D", "E", "F", "G", "H", "I", "J", "K", "L", "M",
                "N", "O", "P", "Q", "R", "S", "T", "U", "V", "W", "X", "Y", "Z">>
LowerAlpha == <<"a", "b", "c", "d", "e", "f", "g", "h", "i", "j", "k", "l", "m",
                "n", "o", "p", "q", "r", "s", "t", "u", "v", "w", "x", "y", "z">>
ToLowerChar(c) ==
    IF \E i \in DOMAIN UpperAlpha : UpperAlpha[i] = c
    THEN LowerAlpha[CHOOSE i \in DOMAIN UpperAlpha : UpperAlpha[i] = c]
    ELSE c
to_lowercase(str) == [i \in DOMAIN str |-> ToLowerChar(str[i])]

\* str::contains: needle is a substring of hay
Contains(hay, needle) ==
    \E i \in 0 .. (Len(hay) - Len(needle)) :
        SubSeq(hay, i + 1, i + Len(needle)) = needle

\* ModelPricing (pricing.rs:27-37): eight Option<f64> rates, here in integer
\* units per token
ModelPricing(inp, out, cc, cr, inp_above, out_above, cc_above, cr_above) ==
    [input_cost_per_token |-> inp,
     output_cost_per_token |-> out,
     cache_creation_input_token_cost |-> cc,
     cache_read_input_token_cost |-> cr,
     input_cost_per_token_above_200k_tokens |-> inp_above,
     output_cost_per_token_above_200k_tokens |-> out_above,
     cache_creation_input_token_cost_above_200k_tokens |-> cc_above,
     cache_read_input_token_cost_above_200k_tokens |-> cr_above]

(***************************************************************************)
(* The catalogs and model names of the pricing runs.                       *)
(***************************************************************************)
NameS4 == <<"s", "4">>
NameS4Upper == <<"S", "4">>
NameX == <<"x", "9">>
KeyAnthropicS4 == PROVIDER_PREFIXES[1] \o NameS4
KeyClaudeS4 == PROVIDER_PREFIXES[4] \o NameS4
KeyOpenaiS4 == PROVIDER_PREFIXES[5] \o NameS4
KeyFuzzyS4 == <<"V", "-", "S", "4", "-", "1", "m">>
KeyFuzzy4 == <<"4">>
KeyUniverse ==
    {NameS4, KeyAnthropicS4, KeyClaudeS4, KeyOpenaiS4, KeyFuzzyS4, KeyFuzzy4}
\* the rates of each key: all different, with and without tiered rates, with
\* and without base rates
RatesOf(key) ==
    CASE key = NameS4 ->
            ModelPricing(Some(3), Some(15), Some(4), Some(1),
                         Some(6), Some(23), Some(8), Some(2))
      [] key = KeyAnthropicS4 ->
            ModelPricing(Some(5), Some(25), Some(7), Some(2), None, None, None, None)
      [] key = KeyClaudeS4 ->
            ModelPricing(Some(10), Some(50), None, None, Some(30), None, None, None)
      [] key = KeyOpenaiS4 ->
            ModelPricing(None, Some(70), None, None, Some(90), Some(110), None, None)
      [] key = KeyFuzzyS4 ->
            ModelPricing(Some(13), Some(17), Some(19), Some(29),
                         Some(31), Some(37), Some(41), Some(43))
      [] OTHER ->
            ModelPricing(Some(47), None, None, None, None, None, None, None)
Catalog(keys) == [k \in keys |-> RatesOf(k)]
Catalogs == {Catalog(keys) : keys \in SUBSET KeyUniverse}
ModelNames == {NameS4, NameS4Upper, NameX}

\* tokens above the threshold in the runs: TIERED_THRESHOLD + k * OverStep
MaxOver == 2
OverStep == 50000
TokenCounts ==
    {0, 1, TIERED_THRESHOLD} \cup {TIERED_THRESHOLD + k * OverStep : k \in 1 .. MaxOver}
\* the four counts of a call: at most two token classes are used at once
TokenTuples ==
    {t \in [1 .. 4 -> TokenCounts] : Cardinality({i \in 1 .. 4 : t[i] /= 0}) <= 2}

(***************************************************************************)
(* get_model_pricing (pricing.rs:157-181).                                 *)
(***************************************************************************)
\* pricing.rs:165
Candidate(prefix, model_name) == prefix \o model_name
\* the prefixes whose candidate is a key of the catalog
PrefixHits(catalog, model_name) ==
    {i \in DOMAIN PROVIDER_PREFIXES :
        Candidate(PROVIDER_PREFIXES[i], model_name) \in DOMAIN catalog}
\* faulty variant: the last matching prefix wins
FirstPrefixHit_Last(catalog, model_name) ==
    CHOOSE i \in PrefixHits(catalog, model_name) :
        \A j \in PrefixHits(catalog, model_name) : j <= i
\* pricing.rs:164-169: the loop returns at the first prefix that hits
FirstPrefixHit(catalog, model_name) ==
    CHOOSE i \in PrefixHits(catalog, model_name) :
        \A j \in PrefixHits(catalog, model_name) : i <= j
\* pricing.rs:172-178: the keys the loop over the map may return (the
\* HashMap's iteration order decides which)
FuzzyHits(catalog, model_name) ==
    LET lower == to_lowercase(model_name)
    IN {key \in DOMAIN catalog :
          LET key_lower == to_lowercase(key)
          IN Contains(key_lower, lower) \/ Contains(lower, key_lower)}

\* faulty variant: a model no step matches is priced as some model of the catalog
get_model_pricing_Default(catalog, model_name) ==
    IF model_name \in DOMAIN catalog THEN {model_name}
    ELSE IF PrefixHits(catalog, model_name) /= {}
    THEN {Candidate(PROVIDER_PREFIXES[FirstPrefixHit(catalog, model_name)], model_name)}
    ELSE IF FuzzyHits(catalog, model_name) /= {}
    THEN FuzzyHits(catalog, model_name)
    ELSE DOMAIN catalog

\* faulty variant: the loop over the map runs even when a key was found before
get_model_pricing_AlwaysFuzzy(catalog, model_name) ==
    FuzzyHits(catalog, model_name)
      \cup (IF model_name \in DOMAIN catalog THEN {model_name}
            ELSE IF PrefixHits(catalog, model_name) /= {}
            THEN {Candidate(PROVIDER_PREFIXES[FirstPrefixHit(catalog, model_name)], model_name)}
            ELSE {})

\* get_model_pricing: the keys whose pricing the call may return; {} is None
get_model_pricing(catalog, model_name) ==
    IF model_name \in DOMAIN catalog THEN {model_name}
    ELSE IF PrefixHits(catalog, model_name) /= {}
    THEN {Candidate(PROVIDER_PREFIXES[FirstPrefixHit(catalog, model_name)], model_name)}
    ELSE FuzzyHits(catalog, model_name)

(***************************************************************************)
(* tiered_cost (pricing.rs:233-247) and calculate_cost (pricing.rs:188-226)*)
(***************************************************************************)
\* faulty variant: above the threshold every token is charged the tiered rate
tiered_cost_AllTiered(tokens, base_price, tiered_price) ==
    IF tokens = 0 THEN 0
    ELSE IF tokens > TIERED_THRESHOLD /\ IsSome(tiered_price)
    THEN tokens * Unwrap(tiered_price)
    ELSE tokens * UnwrapOr(base_price, 0)

tiered_cost(tokens, base_price, tiered_price) ==
    IF tokens = 0 THEN 0
    ELSE IF tokens > TIERED_THRESHOLD /\ IsSome(tiered_price)
    THEN LET below == TIERED_THRESHOLD * UnwrapOr(base_price, 0)
             above == (tokens - TIERED_THRESHOLD) * Unwrap(tiered_price)
         IN below + above
    ELSE tokens * UnwrapOr(base_price, 0)

\* faulty variant: the threshold is compared with the sum of the four counts
CostWith_SummedCounts(pricing, input_tokens, output_tokens, cache_creation_tokens, cache_read_tokens) ==
    LET total == input_tokens + output_tokens + cache_creation_tokens + cache_read_tokens
        charge(tokens, base_price, tiered_price) ==
            IF total > TIERED_THRESHOLD /\ IsSome(tiered_price)
            THEN tokens * Unwrap(tiered_price)
            ELSE tiered_cost(tokens, base_price, tiered_price)
    IN charge(input_tokens, pricing.input_cost_per_token,
              pricing.input_cost_per_token_above_200k_tokens)
       + charge(output_tokens, pricing.output_cost_per_token,
                pricing.output_cost_per_token_above_200k_tokens)
       + charge(cache_creation_tokens, pricing.cache_creation_input_token_cost,
                pricing.cache_creation_input_token_cost_above_200k_tokens)
       + charge(cache_read_tokens, pricing.cache_read_input_token_cost,
                pricing.cache_read_input_token_cost_above_200k_tokens)

\* pricing.rs:201-225: the cost under a pricing that was found
CostWith(pricing, input_tokens, output_tokens, cache_creation_tokens, cache_read_tokens) ==
    LET input_cost == tiered_cost(input_tokens, pricing.input_cost_per_token,
                                  pricing.input_cost_per_token_above_200k_tokens)
        output_cost == tiered_cost(output_tokens, pricing.output_cost_per_token,
                                   pricing.output_cost_per_token_above_200k_tokens)
        cache_creation_cost ==
            tiered_cost(cache_creation_tokens, pricing.cache_creation_input_token_cost,
                        pricing.cache_creation_input_token_cost_above_200k_tokens)
        cache_read_cost ==
            tiered_cost(cache_read_tokens, pricing.cache_read_input_token_cost,
                        pricing.cache_read_input_token_cost_above_200k_tokens)
    IN input_cost + output_cost + cache_creation_cost + cache_read_cost

\* the arguments of a call
Query(model, t) ==
    [model |-> model, input_tokens |-> t[1], output_tokens |-> t[2],
     cache_creation_tokens |-> t[3], cache_read_tokens |-> t[4]]

\* the transcript reader is idle in the pricing runs
ConvIdle ==
    /\ log = <<>>
    /\ page = 0
    /\ page_size = 0
    /\ pc = "idle"
    /\ idx = 1
    /\ conversation_messages = <<>>
    /\ tool_results = EmptyMap
    /\ current_assistant_blocks = <<>>
    /\ current_assistant_timestamp = None
    /\ final_messages = <<>>
    /\ dto = NoDto
    /\ HandlerIdle

\* calculate_cost (pricing.rs:188-226): the one call of a run (the catalog is
\* read-only, so calls do not influence each other)
CalculateCost ==
    /\ pc = "idle"
    /\ query = None
    /\ \E model \in ModelNames, t \in TokenTuples :
         /\ query' = Some(Query(model, t))
         /\ LET hits == get_model_pricing(models, model)
            IN IF hits = {}
               THEN resolved' = None /\ cost' = Some(0)
               ELSE \E key \in hits :
                      /\ resolved' = Some(key)
                      /\ cost' = Some(CostWith(models[key], t[1], t[2], t[3], t[4]))
    /\ UNCHANGED models
    /\ UNCHANGED <<convVars, loadVars, scanVars, aggVars>>

\* a PricingData loaded with one of the catalogs, no call made yet
PriceInit ==
    /\ models \in Catalogs
    /\ query = None
    /\ resolved = None
    /\ cost = None
    /\ ConvIdle
    /\ LoadIdle
    /\ ScanIdle
    /\ AggIdle

PriceNext == CalculateCost

(***************************************************************************)
(* Loading the catalog (src/usage/pricing.rs:46-148).                      *)
(***************************************************************************)
\* anyhow::Result<PricingData>
Ok(m) == [ok |-> TRUE, models |-> m]
Err == [ok |-> FALSE, models |-> EmptyMap]

\* a value of the raw JSON object: one that deserializes into ModelPricing
\* (absent fields are None), or one that does not (a string, a field of the
\* wrong type)
RawObject(pricing) == [deserializes |-> TRUE, pricing |-> pricing]
RawNoCost ==
    RawObject(ModelPricing(None, None, Some(4), Some(1), Some(6), None, None, None))
RawInvalid ==
    [deserializes |-> FALSE,
     pricing |-> ModelPricing(None, None, None, None, None, None, None, None)]

\* parse_raw_data (pricing.rs:96-108): keeps the entries that deserialize and
\* carry an input or an output rate
parse_raw_data(raw) ==
    LET kept == {name \in DOMAIN raw :
                    /\ raw[name].deserializes
                    /\ \/ IsSome(raw[name].pricing.input_cost_per_token)
                       \/ IsSome(raw[name].pricing.output_cost_per_token)}
    IN [name \in kept |-> raw[name].pricing]

\* what the request can come back with (pricing.rs:78-93): a 2xx response
\* whose body decodes as a JSON object, or one of the failures
RawOf(keys) == [k \in keys |-> RawObject(RatesOf(k))]
BodyMixed ==
    MapInsert(MapInsert(RawOf({NameS4, KeyAnthropicS4}), NameX, RawInvalid),
              KeyFuzzy4, RawNoCost)
Bodies == {EmptyMap, BodyMixed, RawOf({KeyClaudeS4}), RawOf({NameS4, KeyOpenaiS4})}
Response(status, body) == [status |-> status, body |-> body]
FetchFailures == {"connect_error", "timeout", "http_error", "decode_error"}
Responses ==
    {Response("ok", body) : body \in Bodies}
        \cup {Response(status, EmptyMap) : status \in FetchFailures}

\* fetch_from_url (pricing.rs:78-93)
fetch_from_url(resp) ==
    IF resp.status = "ok" THEN Ok(parse_raw_data(resp.body)) ELSE Err

\* the content of a file: JSON text that deserializes into a map of
\* ModelPricing, or text that does not (truncated, edited, empty)
FileOf(m) == [valid |-> TRUE, models |-> m]
Corrupt == [valid |-> FALSE, models |-> EmptyMap]
CacheFiles ==
    {None, Some(Corrupt), Some(FileOf(EmptyMap)),
     Some(FileOf(Catalog({KeyAnthropicS4, KeyClaudeS4}))),
     Some(FileOf(Catalog({NameS4})))}
EmbeddedFiles == {Corrupt, FileOf(Catalog({KeyClaudeS4, KeyFuzzyS4}))}

\* load_cache (pricing.rs:131-136): no path, no file and unparsable text are
\* errors
load_cache(dir, file) ==
    IF ~dir THEN Err
    ELSE IF file = None THEN Err
    ELSE IF ~Unwrap(file).valid THEN Err
    ELSE Ok(Unwrap(file).models)

\* embedded_fallback (pricing.rs:140-148)
embedded_fallback(json) == IF json.valid THEN json.models ELSE EmptyMap

\* save_cache (pricing.rs:116-128): the file afterwards. std::fs::write
\* truncates the file and then writes, so a write that fails leaves a prefix
\* of the text behind.
SaveOutcomes == {"ok", "create_dir_fails", "create_fails", "write_fails"}
save_cache(data, dir, file, io) ==
    IF ~dir THEN file
    ELSE IF io = "create_dir_fails" THEN file
    ELSE IF io = "create_fails" THEN file
    ELSE IF io = "write_fails" THEN Some(Corrupt)
    ELSE Some(FileOf(data))

\* the Result save_cache returns (pricing.rs:116-128): Ok(()) when the path
\* exists and every step succeeded
save_cache_result(dir, io) == dir /\ io = "ok"

\* faulty variant: an error of save_cache is handed to the caller of load
after_save_Propagates(saved) == IF saved THEN "loaded" ELSE "failed"

\* `let _ = Self::save_cache(&data); return data;` (pricing.rs:51-52): the
\* Result is dropped and load returns
after_save(saved) == "loaded"

\* what load returns, the sources it consulted and whether it saved
Loaded(m, sources, save) == [models |-> m, consulted |-> sources, save |-> save]

\* a load that asks the cache before the network
load_CacheFirst(resp, dir, file, json) ==
    LET cached == load_cache(dir, file)
    IN IF cached.ok
       THEN Loaded(cached.models, <<"cache">>, FALSE)
       ELSE LET fetched == fetch_from_url(resp)
            IN IF fetched.ok
               THEN Loaded(fetched.models, <<"cache", "remote">>, TRUE)
               ELSE Loaded(embedded_fallback(json),
                           <<"cache", "remote", "embedded">>, FALSE)

\* load (pricing.rs:46-75), from the point where the response is in
load(resp, dir, file, json) ==
    LET fetched == fetch_from_url(resp)
    IN IF fetched.ok
       THEN Loaded(fetched.models, <<"remote">>, TRUE)
       ELSE LET cached == load_cache(dir, file)
            IN IF cached.ok
               THEN Loaded(cached.models, <<"remote", "cache">>, FALSE)
               ELSE Loaded(embedded_fallback(json),
                           <<"remote", "cache", "embedded">>, FALSE)

\* load up to its await: the request is sent (pricing.rs:48, 79-83)
LoadBegin ==
    /\ load_pc = "start"
    /\ load_pc' = "fetching"
    /\ UNCHANGED <<models, response, config_dir, cache_file, embedded, consulted,
                   save_result>>
    /\ UNCHANGED <<cacheVars, query, resolved, cost, convVars, scanVars, aggVars>>

\* load from its await to its return (pricing.rs:48-74): the response or the
\* failure arrives, and the rest of the function runs
LoadResume ==
    /\ load_pc = "fetching"
    /\ \E resp \in Responses, io \in SaveOutcomes :
         LET out == load(resp, config_dir, cache_file, embedded)
         IN /\ response' = Some(resp)
            /\ models' = out.models
            /\ consulted' = out.consulted
            /\ cache_file' = IF out.save
                              THEN save_cache(out.models, config_dir, cache_file, io)
                              ELSE cache_file
            /\ save_result' = IF out.save
                               THEN Some(save_cache_result(config_dir, io))
                               ELSE None
            /\ load_pc' = IF out.save
                           THEN after_save(save_cache_result(config_dir, io))
                           ELSE "loaded"
    /\ UNCHANGED <<config_dir, embedded>>
    /\ UNCHANGED <<cacheVars, query, resolved, cost, convVars, scanVars, aggVars>>

\* a process about to load its catalog: with or without a configuration
\* directory, whatever the cache file and the embedded snapshot hold
LoadInit ==
    /\ load_pc = "start"
    /\ response = None
    /\ config_dir \in BOOLEAN
    /\ cache_file \in CacheFiles
    /\ ~config_dir => cache_file = None
    /\ embedded \in EmbeddedFiles
    /\ consulted = <<>>
    /\ save_result = None
    /\ CacheIdle
    /\ PriceIdle
    /\ ConvIdle
    /\ ScanIdle
    /\ AggIdle

LoadNext == LoadBegin \/ LoadResume

(***************************************************************************)
(* Several processes in PricingData::load at once, sharing the cache file  *)
(* (pricing.rs:46-136).                                                    *)
(*   The JSON text of a catalog is a sequence of chunks <<version, i>>;    *)
(*   std::fs::write is File::create (create or truncate) followed by       *)
(*   write_all, a loop of write calls at the descriptor's own offset.      *)
(*   proc[p].pc: "start", "create", "write", "read", "returned".           *)
(***************************************************************************)
\* processes of a run
NumProcs == 2
Procs == 1 .. NumProcs

\* the versions of the remote catalog the processes may fetch, and the
\* number of chunks of the JSON text of each
Versions == {"v1", "v2"}
ChunksOf(version) == IF version = "v1" THEN 2 ELSE 1
TextOf(version) == [i \in 1 .. ChunksOf(version) |-> <<version, i>>]
\* bytes of a file that no write has filled
Hole == <<"hole", 0>>
\* the cache file before the run: absent, the text of an older catalog, or
\* text that does not parse
OldText == <<<<"v0", 1>>>>
InitialDisks == {None, Some(OldText), Some(<<Hole>>)}

\* serde_json::from_str on the text of the file (pricing.rs:134): it parses
\* when it is the whole text of one catalog
ParsedVersion(text) ==
    IF text = OldText THEN Some("v0")
    ELSE IF \E v \in Versions : text = TextOf(v)
    THEN Some(CHOOSE v \in Versions : text = TextOf(v))
    ELSE None

\* File::create (inside std::fs::write, pricing.rs:125): the file exists
\* and is empty
create_file(file) == Some(<<>>)

\* one write call of write_all: n chunks of text go to the file at offset
write_at(file, offset, text, n) ==
    LET old == Unwrap(file)
        end == IF offset + n > Len(old) THEN offset + n ELSE Len(old)
    IN Some([i \in 1 .. end |->
                IF i > offset /\ i <= offset + n THEN text[i]
                ELSE IF i <= Len(old) THEN old[i]
                ELSE Hole])

Process(at, text, offset, source, catalog) ==
    [pc |-> at, text |-> text, offset |-> offset, source |-> source, catalog |-> catalog]

\* the rest of the state stays as it is in a step of a process
CacheFrame ==
    /\ UNCHANGED <<models, query, resolved, cost>>
    /\ UNCHANGED <<load_pc, response, config_dir, cache_file, embedded, consulted,
                   save_result>>
    /\ UNCHANGED <<convVars, scanVars, aggVars>>

\* pricing.rs:48-49: the fetch succeeds with some version of the catalog;
\* save_cache is entered
ProcFetchOk ==
    /\ \E p \in Procs, v \in Versions :
         /\ proc[p].pc = "start"
         /\ proc' = [proc EXCEPT ![p] = Process("create", TextOf(v), 0, "remote", Some(v))]
    /\ UNCHANGED disk
    /\ CacheFrame

\* pricing.rs:54-59: the fetch fails; load_cache is next
ProcFetchFails ==
    /\ \E p \in Procs :
         /\ proc[p].pc = "start"
         /\ proc' = [proc EXCEPT ![p] = Process("read", <<>>, 0, "", None)]
    /\ UNCHANGED disk
    /\ CacheFrame

\* pricing.rs:125, first half of std::fs::write
ProcCreate ==
    /\ \E p \in Procs :
         /\ proc[p].pc = "create"
         /\ disk' = create_file(disk)
         /\ proc' = [proc EXCEPT ![p].pc = "write"]
    /\ CacheFrame

\* pricing.rs:125, second half of std::fs::write: one write call; after the
\* last one save_cache and load return (pricing.rs:51-52)
ProcWrite ==
    /\ \E p \in Procs :
         /\ proc[p].pc = "write"
         /\ \E n \in 1 .. (Len(proc[p].text) - proc[p].offset) :
              /\ disk' = write_at(disk, proc[p].offset, proc[p].text, n)
              /\ proc' = [proc EXCEPT
                             ![p].offset = @ + n,
                             ![p].pc = IF proc[p].offset + n = Len(proc[p].text)
                                       THEN "returned" ELSE "write"]
    /\ CacheFrame

\* pricing.rs:62-74: load_cache reads and parses the file; when that fails
\* the embedded snapshot is returned
ProcReadCache ==
    /\ \E p \in Procs :
         /\ proc[p].pc = "read"
         /\ LET cached == IF disk = None THEN None ELSE ParsedVersion(Unwrap(disk))
            IN proc' = [proc EXCEPT ![p] =
                           IF cached /= None
                           THEN Process("returned", <<>>, 0, "cache", cached)
                           ELSE Process("returned", <<>>, 0, "embedded", Some("embedded"))]
    /\ UNCHANGED disk
    /\ CacheFrame

CacheNext ==
    \/ ProcFetchOk
    \/ ProcFetchFails
    \/ ProcCreate
    \/ ProcWrite
    \/ ProcReadCache

\* NumProcs processes about to load, with a configuration directory
CacheInit ==
    /\ disk \in InitialDisks
    /\ proc = [p \in Procs |-> Process("start", <<>>, 0, "", None)]
    /\ LoadOff
    /\ PriceIdle
    /\ ConvIdle
    /\ ScanIdle
    /\ AggIdle

(***************************************************************************)
(* The usage scanner (src/usage/scanner.rs): parse_session_file.           *)
(***************************************************************************)
\* width of u64 in bits, scaled down from 64 so that an overflowing sum of
\* token counts is reachable
TokenBits == 21
U64Size == 2 ^ TokenBits

\* message.usage: the four fields as .get(..).and_then(as_u64) sees them, None
\* for a field that is absent or is not an unsigned integer
MsgUsage(input, output, cache_creation, cache_read) ==
    [input_tokens |-> input, output_tokens |-> output,
     cache_creation_input_tokens |-> cache_creation,
     cache_read_input_tokens |-> cache_read]
\* message: its model (a string or absent) and its usage (present or absent)
Msg(model, msg_usage) == [model |-> model, usage |-> msg_usage]
\* a line of the session file.
\*   readable: reader.lines() yields Ok          (scanner.rs:192-195)
\*   blank:    line.trim().is_empty()            (scanner.rs:197)
\*   marker:   the text contains "type":"assistant" written without a space
\*             after the colon                   (scanner.rs:202)
\*   json:     serde_json::from_str yields Ok    (scanner.rs:206-209)
\*   type:     entry.get("type") as a string, "" when absent
SLine(readable, blank, marker, json, type, message, timestamp) ==
    [readable |-> readable, blank |-> blank, marker |-> marker, json |-> json,
     type |-> type, message |-> message, timestamp |-> timestamp]
SRecord(marker, type, message, timestamp) ==
    SLine(TRUE, FALSE, marker, TRUE, type, message, timestamp)

\* timestamps
Ts0205 == <<"2", "0", "2", "6", "-", "0", "2", "-", "0", "5", "T", "1", "0">>
Ts0206 == <<"2", "0", "2", "6", "-", "0", "2", "-", "0", "6", "T", "0", "9">>
\* the model priced when a record names none (scanner.rs:254)
DefaultModel == <<"c", "l", "a", "u", "d", "e", "-", "s", "o", "n", "n", "e", "t">>
KeySonnet4 == DefaultModel \o <<"-", "4">>

\* the lines of the scanning runs
SUnreadable == SLine(FALSE, FALSE, FALSE, FALSE, "", None, None)
SBlank == SLine(TRUE, TRUE, FALSE, FALSE, "", None, None)
\* a line cut off after the marker: not JSON
STruncated == SLine(TRUE, FALSE, TRUE, FALSE, "", None, None)
SUser == SRecord(FALSE, "user", Some(Msg(None, None)), Some(Ts0205))
\* a user record that quotes an assistant record inside its payload
SUserNested == SRecord(TRUE, "user", Some(Msg(None, None)), Some(Ts0205))
SNoMessage == SRecord(TRUE, "assistant", None, Some(Ts0205))
SNoUsage == SRecord(TRUE, "assistant", Some(Msg(Some(NameS4), None)), Some(Ts0205))
SUsageS4 ==
    SRecord(TRUE, "assistant",
            Some(Msg(Some(NameS4), Some(MsgUsage(Some(150000), Some(1), None, None)))),
            Some(Ts0206))
SUsageS4Over ==
    SRecord(TRUE, "assistant",
            Some(Msg(Some(NameS4), Some(MsgUsage(Some(250000), None, None, Some(7))))),
            None)
SUsageNoModel ==
    SRecord(TRUE, "assistant",
            Some(Msg(None, Some(MsgUsage(None, Some(3), Some(2), None)))),
            Some(Ts0205))
SUsageUnknown ==
    SRecord(TRUE, "assistant",
            Some(Msg(Some(NameX), Some(MsgUsage(Some(5), Some(5), None, None)))),
            None)
\* a record whose input_tokens is half of the largest u64 plus one
SUsageHuge ==
    SRecord(TRUE, "assistant",
            Some(Msg(Some(NameX), Some(MsgUsage(Some(U64Size \div 2), None, None, None)))),
            None)
\* an assistant record with usage, written with a space after each colon
SUsageSpaced ==
    SRecord(FALSE, "assistant",
            Some(Msg(Some(NameS4), Some(MsgUsage(Some(11), Some(13), None, None)))),
            Some(Ts0205))
ScanLines ==
    {SUnreadable, SBlank, STruncated, SUser, SUserNested, SNoMessage, SNoUsage,
     SUsageS4, SUsageS4Over, SUsageNoModel, SUsageUnknown, SUsageHuge, SUsageSpaced}
ScanLogs == SeqsUpTo(ScanLines, MaxLen)
\* the catalog of the scanning runs
ScanCatalog ==
    MapInsert(Catalog({NameS4, KeyAnthropicS4}), KeySonnet4,
              ModelPricing(Some(2), Some(9), Some(3), Some(1), None, None, None, None))

\* scanner.rs:202: the test on the text of the line
quick_filter(line) == line.marker

\* .get(..).and_then(|v| v.as_u64()).unwrap_or(0) (scanner.rs:227-242)
field_or_zero(field) == UnwrapOr(field, 0)

\* u64 addition. overflow_checks is the build's overflow-checks setting: with
\* it an overflowing sum panics, without it the sum wraps.
add_u64(a, b, overflow_checks) ==
    IF a + b >= U64Size
    THEN [panic |-> overflow_checks, value |-> (a + b) % U64Size]
    ELSE [panic |-> FALSE, value |-> a + b]

\* scanner.rs:221-223
count_model_call(calls, msg) ==
    IF IsSome(msg.model)
    THEN LET model == Unwrap(msg.model)
             before == IF model \in DOMAIN calls THEN calls[model] ELSE 0
         IN MapInsert(calls, model, before + 1)
    ELSE calls

\* scanner.rs:260-264
keep_first_timestamp(first_timestamp, line) ==
    IF first_timestamp = None /\ IsSome(line.timestamp)
    THEN line.timestamp
    ELSE first_timestamp

\* calculate_cost, the free function of the pricing module that scanner.rs:5
\* imports: the Pricing Resolver applied to the catalog the process loaded.
\* The values it may return (the fuzzy step follows the map's iteration order).
calculate_cost(catalog, model, input, output, cache_creation, cache_read) ==
    LET hits == get_model_pricing(catalog, model)
    IN IF hits = {} THEN {0}
       ELSE {CostWith(catalog[key], input, output, cache_creation, cache_read) :
                key \in hits}

\* faulty variant: the session's running totals are priced
priced_counts_RunningTotals(totals, input, output, cache_creation, cache_read) ==
    <<totals.input_tokens, totals.output_tokens,
      totals.cache_creation_tokens, totals.cache_read_tokens>>

\* scanner.rs:256: the counts handed to calculate_cost are the record's own
priced_counts(totals, input, output, cache_creation, cache_read) ==
    <<input, output, cache_creation, cache_read>>

(***************************************************************************)
(* parse_session_file as a state machine.                                  *)
(*   scan_pc: "open", "scan" (the line loop), "done" (returned), "panic".  *)
(***************************************************************************)
ScanAtLine == scan_pc = "scan" /\ scan_idx <= Len(session_log)
ScanLine == session_log[scan_idx]
ScanSkip ==
    /\ scan_idx' = scan_idx + 1
    /\ UNCHANGED <<session_log, can_open, scan_pc, usage, found_any, scanned>>
    /\ UNCHANGED <<allVars, convVars, priceVars, loadVars, aggVars>>

\* scanner.rs:181: File::open(path).ok()?
ScanOpen ==
    /\ scan_pc = "open"
    /\ IF can_open
       THEN scan_pc' = "scan" /\ scanned' = scanned
       ELSE scan_pc' = "done" /\ scanned' = None
    /\ UNCHANGED <<session_log, can_open, scan_idx, usage, found_any>>
    /\ UNCHANGED <<allVars, convVars, priceVars, loadVars, aggVars>>

\* scanner.rs:192-195
ScanSkipUnreadable == ScanAtLine /\ ~ScanLine.readable /\ ScanSkip
\* scanner.rs:197-199
ScanSkipBlank == ScanAtLine /\ ScanLine.readable /\ ScanLine.blank /\ ScanSkip
\* scanner.rs:202-204
ScanSkipFiltered ==
    /\ ScanAtLine /\ ScanLine.readable /\ ~ScanLine.blank
    /\ ~quick_filter(ScanLine)
    /\ ScanSkip
\* scanner.rs:206-209
ScanSkipInvalid ==
    /\ ScanAtLine /\ ScanLine.readable /\ ~ScanLine.blank /\ quick_filter(ScanLine)
    /\ ~ScanLine.json
    /\ ScanSkip
\* the line decodes into an entry
ScanAtEntry ==
    /\ ScanAtLine /\ ScanLine.readable /\ ~ScanLine.blank /\ quick_filter(ScanLine)
    /\ ScanLine.json
\* scanner.rs:211-213
ScanSkipNotAssistant == ScanAtEntry /\ ScanLine.type /= "assistant" /\ ScanSkip
\* scanner.rs:215-218
ScanSkipNoMessage ==
    /\ ScanAtEntry /\ ScanLine.type = "assistant"
    /\ ScanLine.message = None
    /\ ScanSkip
ScanAtMessage ==
    /\ ScanAtEntry /\ ScanLine.type = "assistant"
    /\ ScanLine.message /= None

\* scanner.rs:220-264, message.usage absent
ScanNoUsage ==
    /\ ScanAtMessage
    /\ Unwrap(ScanLine.message).usage = None
    /\ usage' = [usage EXCEPT
                    !.model_calls = count_model_call(@, Unwrap(ScanLine.message)),
                    !.first_timestamp = keep_first_timestamp(@, ScanLine)]
    /\ scan_idx' = scan_idx + 1
    /\ UNCHANGED <<session_log, can_open, scan_pc, found_any, scanned>>
    /\ UNCHANGED <<allVars, convVars, priceVars, loadVars, aggVars>>

\* scanner.rs:220-264, message.usage present
ScanCountUsage ==
    /\ ScanAtMessage
    /\ Unwrap(ScanLine.message).usage /= None
    /\ \E overflow_checks \in BOOLEAN :
         LET message == Unwrap(ScanLine.message)
             msg_usage == Unwrap(message.usage)
             input == field_or_zero(msg_usage.input_tokens)
             output == field_or_zero(msg_usage.output_tokens)
             cache_creation == field_or_zero(msg_usage.cache_creation_input_tokens)
             cache_read == field_or_zero(msg_usage.cache_read_input_tokens)
             sum_input == add_u64(usage.input_tokens, input, overflow_checks)
             sum_output == add_u64(usage.output_tokens, output, overflow_checks)
             sum_cache_creation ==
                 add_u64(usage.cache_creation_tokens, cache_creation, overflow_checks)
             sum_cache_read ==
                 add_u64(usage.cache_read_tokens, cache_read, overflow_checks)
             msg_model == UnwrapOr(message.model, DefaultModel)
             totals == [usage EXCEPT !.input_tokens = sum_input.value,
                                     !.output_tokens = sum_output.value,
                                     !.cache_creation_tokens = sum_cache_creation.value,
                                     !.cache_read_tokens = sum_cache_read.value]
             priced == priced_counts(totals, input, output, cache_creation, cache_read)
         IN IF \/ sum_input.panic \/ sum_output.panic
               \/ sum_cache_creation.panic \/ sum_cache_read.panic
            THEN /\ scan_pc' = "panic"
                 /\ UNCHANGED <<scan_idx, usage, found_any>>
            ELSE /\ \E record_cost \in calculate_cost(models, msg_model, priced[1],
                                                      priced[2], priced[3], priced[4]) :
                       usage' = [totals EXCEPT
                                   !.model_calls = count_model_call(@, message),
                                   !.total_cost_usd = @ + record_cost,
                                   !.first_timestamp = keep_first_timestamp(@, ScanLine)]
                 /\ found_any' = TRUE
                 /\ scan_idx' = scan_idx + 1
                 /\ scan_pc' = scan_pc
    /\ UNCHANGED <<session_log, can_open, scanned>>
    /\ UNCHANGED <<allVars, convVars, priceVars, loadVars, aggVars>>

\* scanner.rs:267-271
ScanReturn ==
    /\ scan_pc = "scan"
    /\ scan_idx > Len(session_log)
    /\ scanned' = IF found_any THEN Some(usage) ELSE None
    /\ scan_pc' = "done"
    /\ UNCHANGED <<session_log, can_open, scan_idx, usage, found_any>>
    /\ UNCHANGED <<allVars, convVars, priceVars, loadVars, aggVars>>

ScanNext ==
    \/ ScanOpen
    \/ ScanSkipUnreadable
    \/ ScanSkipBlank
    \/ ScanSkipFiltered
    \/ ScanSkipInvalid
    \/ ScanSkipNotAssistant
    \/ ScanSkipNoMessage
    \/ ScanNoUsage
    \/ ScanCountUsage
    \/ ScanReturn

\* a call of parse_session_file on a file of at most MaxLen lines, by a
\* process that has loaded ScanCatalog
ScanInit ==
    /\ session_log \in ScanLogs
    /\ can_open \in BOOLEAN
    /\ scan_pc = "open"
    /\ scan_idx = 1
    /\ usage = DefaultUsage
    /\ found_any = FALSE
    /\ scanned = None
    /\ AllIdle
    /\ models = ScanCatalog
    /\ query = None
    /\ resolved = None
    /\ cost = None
    /\ ConvIdle
    /\ LoadIdle
    /\ AggIdle

(***************************************************************************)
(* The usage scanner (src/usage/scanner.rs): aggregate_usage.              *)
(***************************************************************************)
\* most sessions of a call in the aggregation runs
MaxSessions == 3

\* a character that takes two bytes in UTF-8 (such as e with an acute accent)
WideChar == "e'"
char_len(c) == IF c = WideChar THEN 2 ELSE 1
\* str::len: the length in bytes
RECURSIVE byte_len(_)
byte_len(str) == IF str = <<>> THEN 0 ELSE char_len(Head(str)) + byte_len(Tail(str))
\* the characters that lie wholly within the first n bytes
RECURSIVE chars_within(_, _)
chars_within(str, n) ==
    IF str = <<>> \/ char_len(Head(str)) > n THEN <<>>
    ELSE <<Head(str)>> \o chars_within(Tail(str), n - char_len(Head(str)))
\* str::is_char_boundary(n), for n <= len
is_char_boundary(str, n) == byte_len(chars_within(str, n)) = n
\* chars().nth(i), i from 0
nth_char(str, i) == IF i + 1 <= Len(str) THEN Some(str[i + 1]) ELSE None

\* extract_date_from_timestamp (scanner.rs:275-285). &ts[..10] slices by bytes
\* and panics when byte 10 is not a character boundary.
extract_date_from_timestamp(ts) ==
    IF byte_len(ts) >= 10
    THEN IF ~is_char_boundary(ts, 10)
         THEN [panic |-> TRUE, date |-> None]
         ELSE LET date == chars_within(ts, 10)
              IN IF nth_char(date, 4) = Some("-") /\ nth_char(date, 7) = Some("-")
                 THEN [panic |-> FALSE, date |-> Some(date)]
                 ELSE [panic |-> FALSE, date |-> None]
    ELSE [panic |-> FALSE, date |-> None]

\* usage.first_timestamp.as_deref().and_then(extract_date_from_timestamp)
\* (scanner.rs:64-67)
session_date_of(session) ==
    IF session.first_timestamp = None
    THEN [panic |-> FALSE, date |-> None]
    ELSE extract_date_from_timestamp(Unwrap(session.first_timestamp))

\* the order of str::cmp on the characters of the runs (their byte order)
CharOrder == <<"-", "0", "1", "2", "3", "4", "5", "6", "7", "8", "9", "T", WideChar>>
char_rank(c) == CHOOSE i \in DOMAIN CharOrder : CharOrder[i] = c
\* faulty variant: the dates are compared the other way round
RECURSIVE str_less_Reversed(_, _)
str_less_Reversed(a, b) ==
    IF a = <<>> THEN FALSE
    ELSE IF b = <<>> THEN TRUE
    ELSE IF Head(a) /= Head(b) THEN char_rank(Head(a)) > char_rank(Head(b))
    ELSE str_less_Reversed(Tail(a), Tail(b))
\* a.cmp(&b) == Ordering::Less on strings
RECURSIVE str_less(_, _)
str_less(a, b) ==
    IF b = <<>> THEN FALSE
    ELSE IF a = <<>> THEN TRUE
    ELSE IF Head(a) /= Head(b) THEN char_rank(Head(a)) < char_rank(Head(b))
    ELSE str_less(Tail(a), Tail(b))

\* the sessions and the filters of the aggregation runs
TsNoDashes == <<"2", "0", "2", "6", "0", "2", "0", "5", "T", "1", "0">>
\* byte 10 falls inside the two-byte character
TsWideAtTen == <<"2", "0", "2", "6", "-", "0", "2", "-", "0", WideChar>>
\* the first ten bytes are nine characters
TsWideFirst == <<WideChar, "0", "2", "6", "-", "0", "2", "-", "0", "5">>
Date0205 == SubSeq(Ts0205, 1, 10)
Date0206 == SubSeq(Ts0206, 1, 10)
Calls(s4, x9) ==
    [model \in (IF s4 > 0 THEN {NameS4} ELSE {}) \cup (IF x9 > 0 THEN {NameX} ELSE {})
        |-> IF model = NameS4 THEN s4 ELSE x9]
SessionPool ==
    {SessionUsage(1000, 500, 0, 0, 12, Calls(2, 0), Some(Ts0205)),
     SessionUsage(2000, 1000, 3, 4, 24, Calls(1, 1), Some(Ts0206)),
     SessionUsage(1, 1, 1, 1, 6, Calls(0, 2), Some(Ts0205)),
     SessionUsage(7, 0, 0, 0, 6, Calls(0, 0), None),
     SessionUsage(9, 9, 0, 0, 6, Calls(1, 0), Some(TsNoDashes)),
     SessionUsage(5, 5, 0, 0, 6, Calls(1, 0), Some(TsWideAtTen)),
     SessionUsage(U64Size \div 2, 0, 0, 0, 0, Calls(1, 0), Some(Ts0206)),
     SessionUsage(U64Size \div 2, 0, 0, 0, 0, Calls(1, 0), Some(Ts0205)),
     SessionUsage(3, 0, 0, 0, 6, Calls(0, 1), Some(TsWideFirst))}
SessionIds == <<"s1", "s2", "s3", "s4", "s5">>
SessionMaps ==
    UNION {[{SessionIds[i] : i \in 1 .. n} -> SessionPool] : n \in 0 .. MaxSessions}
DateFilters == {None, Some({}), Some({Date0205}), Some({Date0205, Date0206})}

\* ModelUsageCount, DailyUsage and UsageSummary (types.rs:20-52)
ModelUsageCount(model, count, total_cost) ==
    [model |-> model, count |-> count, total_cost_usd |-> total_cost]
DailyUsage(date, input, output, cache_creation, cache_read, total_cost, sessions) ==
    [date |-> date, input_tokens |-> input, output_tokens |-> output,
     cache_creation_tokens |-> cache_creation, cache_read_tokens |-> cache_read,
     total_cost_usd |-> total_cost, session_count |-> sessions]
UsageSummary(sums, model_distribution, daily_usage) ==
    [total_input_tokens |-> sums.total_input,
     total_output_tokens |-> sums.total_output,
     total_cache_creation_tokens |-> sums.total_cache_creation,
     total_cache_read_tokens |-> sums.total_cache_read,
     total_cost_usd |-> sums.total_cost,
     total_sessions |-> sums.total_sessions,
     model_distribution |-> model_distribution,
     daily_usage |-> daily_usage]

\* usage.model_calls.values().sum() (scanner.rs:92)
RECURSIVE total_calls_of(_)
total_calls_of(calls) ==
    IF DOMAIN calls = {} THEN 0
    ELSE LET model == CHOOSE m \in DOMAIN calls : TRUE
         IN calls[model] + total_calls_of(MapRemove(calls, model))

\* scanner.rs:70-79: the session is left out
filtered_out(filter, date) ==
    /\ filter /= None
    /\ \/ date = None
       \/ Unwrap(date) \notin Unwrap(filter)

\* faulty variant: every model of a session is given the session's whole cost
model_counts_after_WholeCost(counts, session) ==
    LET calls == session.model_calls
    IN [model \in DOMAIN counts \cup DOMAIN calls |->
          LET before == IF model \in DOMAIN counts
                        THEN counts[model]
                        ELSE [count |-> 0, cost |-> 0]
          IN IF model \in DOMAIN calls
             THEN [count |-> before.count + calls[model],
                   cost |-> before.cost + session.total_cost_usd]
             ELSE before]

\* scanner.rs:88-96: the model counts after a session. The share of the cost
\* is total_cost_usd * (count / total_calls); the costs of the runs are
\* multiples of the numbers of calls, so the quotient is exact.
model_counts_after(counts, session) ==
    LET calls == session.model_calls
        total_calls == total_calls_of(calls)
    IN [model \in DOMAIN counts \cup DOMAIN calls |->
          LET before == IF model \in DOMAIN counts
                        THEN counts[model]
                        ELSE [count |-> 0, cost |-> 0]
          IN IF model \in DOMAIN calls
             THEN [count |-> before.count + calls[model],
                   cost |-> IF total_calls > 0
                            THEN before.cost
                                   + (session.total_cost_usd * calls[model]) \div total_calls
                            ELSE before.cost]
             ELSE before]

\* scanner.rs:98-114: the day's entry after a session of that day; u64 sums
\* that wrap (a sum that panics has panicked at scanner.rs:81-84 already)
daily_map_after(days, date, session) ==
    LET before == IF date \in DOMAIN days
                  THEN days[date]
                  ELSE DailyUsage(date, 0, 0, 0, 0, 0, 0)
    IN MapInsert(days, date,
         DailyUsage(date,
                    (before.input_tokens + session.input_tokens) % U64Size,
                    (before.output_tokens + session.output_tokens) % U64Size,
                    (before.cache_creation_tokens + session.cache_creation_tokens) % U64Size,
                    (before.cache_read_tokens + session.cache_read_tokens) % U64Size,
                    before.total_cost_usd + session.total_cost_usd,
                    before.session_count + 1))

\* the body of the loop (scanner.rs:63-115) for one session
after_session(sums, counts, days, session, filter, overflow_checks) ==
    LET session_date == session_date_of(session)
        input == add_u64(sums.total_input, session.input_tokens, overflow_checks)
        output == add_u64(sums.total_output, session.output_tokens, overflow_checks)
        cache_creation == add_u64(sums.total_cache_creation,
                                  session.cache_creation_tokens, overflow_checks)
        cache_read == add_u64(sums.total_cache_read, session.cache_read_tokens,
                              overflow_checks)
        unchanged == [panic |-> FALSE, totals |-> sums, model_counts |-> counts,
                      daily_map |-> days]
    IN IF session_date.panic THEN [unchanged EXCEPT !.panic = TRUE]
       ELSE IF filtered_out(filter, session_date.date) THEN unchanged
       ELSE IF input.panic \/ output.panic \/ cache_creation.panic \/ cache_read.panic
       THEN [unchanged EXCEPT !.panic = TRUE]
       ELSE [panic |-> FALSE,
             totals |-> Totals(input.value, output.value, cache_creation.value,
                               cache_read.value,
                               sums.total_cost + session.total_cost_usd,
                               sums.total_sessions + 1),
             model_counts |-> model_counts_after(counts, session),
             daily_map |-> IF session_date.date = None THEN days
                           ELSE daily_map_after(days, Unwrap(session_date.date), session)]

\* the orders of a set as a list
Orderings(S) ==
    {seq \in [1 .. Cardinality(S) -> S] :
        \A i, j \in 1 .. Cardinality(S) : i /= j => seq[i] /= seq[j]}
\* scanner.rs:117-125: the entries in the map's iteration order, stably sorted
\* by count, largest first; entries of equal count stay in the order the map
\* yielded them
sorted_model_distribution(counts) ==
    LET entries == {ModelUsageCount(model, counts[model].count, counts[model].cost) :
                        model \in DOMAIN counts}
    IN {seq \in Orderings(entries) :
          \A i, j \in DOMAIN seq : i < j => seq[i].count >= seq[j].count}
\* scanner.rs:127-139: the days sorted by date
sorted_daily_usage(days) ==
    LET entries == {days[date] : date \in DOMAIN days}
    IN {seq \in Orderings(entries) :
          \A i, j \in DOMAIN seq : i < j => ~str_less(seq[j].date, seq[i].date)}

(***************************************************************************)
(* aggregate_usage as a state machine.                                     *)
(*   agg_pc: "loop" (over session_usages.values(), in the map's order),    *)
(*   "done" (returned), "panic".                                           *)
(***************************************************************************)
\* one turn of the loop (scanner.rs:63-115), for the session the map yields next
AggVisit ==
    /\ agg_pc = "loop"
    /\ \E id \in DOMAIN session_usages \ visited, overflow_checks \in BOOLEAN :
         LET out == after_session(agg_totals, model_counts, daily_map,
                                  session_usages[id], date_filter, overflow_checks)
         IN /\ visited' = visited \cup {id}
            /\ agg_pc' = IF out.panic THEN "panic" ELSE "loop"
            /\ agg_totals' = out.totals
            /\ model_counts' = out.model_counts
            /\ daily_map' = out.daily_map
    /\ UNCHANGED <<session_usages, date_filter, summary>>
    /\ UNCHANGED <<convVars, priceVars, loadVars, scanVars>>

\* the loop is over: the lists are built and sorted, the summary is returned
\* (scanner.rs:117-150)
AggReturn ==
    /\ agg_pc = "loop"
    /\ visited = DOMAIN session_usages
    /\ \E model_distribution \in sorted_model_distribution(model_counts),
          daily_usage \in sorted_daily_usage(daily_map) :
         summary' = Some(UsageSummary(agg_totals, model_distribution, daily_usage))
    /\ agg_pc' = "done"
    /\ UNCHANGED <<session_usages, date_filter, visited, agg_totals, model_counts,
                   daily_map>>
    /\ UNCHANGED <<convVars, priceVars, loadVars, scanVars>>

AggNext == AggVisit \/ AggReturn

\* a call of aggregate_usage on at most MaxSessions sessions
AggInit ==
    /\ session_usages \in SessionMaps
    /\ date_filter \in DateFilters
    /\ agg_pc = "loop"
    /\ visited = {}
    /\ agg_totals = Totals(0, 0, 0, 0, 0, 0)
    /\ model_counts = EmptyMap
    /\ daily_map = EmptyMap
    /\ summary = None
    /\ PriceIdle
    /\ ConvIdle
    /\ LoadIdle
    /\ ScanIdle

(***************************************************************************)
(* scan_all_sessions (scanner.rs:12-44) and collect_jsonl_files            *)
(* (scanner.rs:164-177).                                                   *)
(*   all_pc: "start", "loop" (over jsonl_files), "parse" (inside the call  *)
(*   of parse_session_file), "done" (returned).                            *)
(***************************************************************************)
\* most files under projects_dir in a run
MaxFiles == 2

\* a file: its directory, its file stem (None when it is not UTF-8), its
\* extension, whether it can be opened and its lines
FileEntry(dir, stem, extension, openable, lines) ==
    [dir |-> dir, stem |-> stem, extension |-> extension, openable |-> openable,
     lines |-> lines]

\* the files of the runs: two projects, session files with and without usage,
\* one that cannot be opened, one that is no session log, one whose name is
\* not UTF-8, one whose counters overflow
FilePool ==
    {FileEntry("a", Some("s1"), "jsonl", TRUE, <<SUsageUnknown>>),
     FileEntry("b", Some("s1"), "jsonl", TRUE, <<SUsageNoModel, SBlank, SUser>>),
     FileEntry("a", Some("s2"), "jsonl", TRUE, <<SUnreadable, STruncated, SUserNested>>),
     FileEntry("b", Some("s2"), "jsonl", FALSE, <<SUsageS4>>),
     FileEntry("a", Some("s3"), "jsonl", TRUE, <<SNoMessage, SNoUsage, SUsageS4>>),
     FileEntry("a", Some("notes"), "txt", TRUE, <<SUsageS4>>),
     FileEntry("a", None, "jsonl", TRUE, <<SUsageS4>>),
     FileEntry("b", Some("s4"), "jsonl", TRUE, <<SUsageSpaced>>),
     FileEntry("b", Some("s5"), "jsonl", TRUE, <<SUsageHuge, SUsageHuge>>)}
Trees == {files \in SUBSET FilePool : Cardinality(files) <= MaxFiles}
IdFilters == {None, Some({}), Some({"s1"}), Some({"s1", "s3", "s9"})}

\* collect_jsonl_files (scanner.rs:164-177): the paths with extension jsonl,
\* in the order read_dir yields them (any order)
collect_jsonl_files(files) == Orderings({f \in files : f.extension = "jsonl"})

\* scanner.rs:25-36: the path is passed over
skipped_path(file, ids) ==
    IF file.stem = None THEN TRUE
    ELSE IF ids = None THEN FALSE
    ELSE Unwrap(file.stem) \notin Unwrap(ids)

\* result.insert(session_id, usage) (scanner.rs:39)
insert_result(map, session_id, record) == MapInsert(map, session_id, record)

AtPath == all_pc = "loop" /\ file_idx <= Len(jsonl_files)

\* scanner.rs:13-23
AllBegin ==
    /\ all_pc = "start"
    /\ IF projects_dir /= "present"
       THEN all_pc' = "done" /\ jsonl_files' = jsonl_files
       ELSE /\ all_pc' = "loop"
            /\ jsonl_files' \in collect_jsonl_files(tree)
    /\ UNCHANGED <<projects_dir, tree, session_ids, file_idx, result>>
    /\ UNCHANGED <<session_log, can_open, scan_pc, scan_idx, usage, found_any, scanned>>
    /\ UNCHANGED <<convVars, priceVars, loadVars, aggVars>>

\* scanner.rs:25-36
AllSkipPath ==
    /\ AtPath
    /\ skipped_path(jsonl_files[file_idx], session_ids)
    /\ file_idx' = file_idx + 1
    /\ UNCHANGED <<projects_dir, tree, session_ids, jsonl_files, result, all_pc>>
    /\ UNCHANGED <<session_log, can_open, scan_pc, scan_idx, usage, found_any, scanned>>
    /\ UNCHANGED <<convVars, priceVars, loadVars, aggVars>>

\* scanner.rs:38: parse_session_file is called on the path
AllParsePath ==
    /\ AtPath
    /\ ~skipped_path(jsonl_files[file_idx], session_ids)
    /\ session_log' = jsonl_files[file_idx].lines
    /\ can_open' = jsonl_files[file_idx].openable
    /\ scan_pc' = "open"
    /\ scan_idx' = 1
    /\ usage' = DefaultUsage
    /\ found_any' = FALSE
    /\ scanned' = None
    /\ all_pc' = "parse"
    /\ UNCHANGED <<projects_dir, tree, session_ids, jsonl_files, file_idx, result>>
    /\ UNCHANGED <<convVars, priceVars, loadVars, aggVars>>

\* scanner.rs:38-40: the call has returned
AllInsert ==
    /\ all_pc = "parse" /\ scan_pc = "done"
    /\ result' = IF scanned /= None
                 THEN insert_result(result, Unwrap(jsonl_files[file_idx].stem),
                                    Unwrap(scanned))
                 ELSE result
    /\ file_idx' = file_idx + 1
    /\ all_pc' = "loop"
    /\ UNCHANGED <<projects_dir, tree, session_ids, jsonl_files>>
    /\ UNCHANGED <<session_log, can_open, scan_pc, scan_idx, usage, found_any, scanned>>
    /\ UNCHANGED <<convVars, priceVars, loadVars, aggVars>>

\* scanner.rs:43
AllReturn ==
    /\ all_pc = "loop" /\ file_idx > Len(jsonl_files)
    /\ all_pc' = "done"
    /\ UNCHANGED <<projects_dir, tree, session_ids, jsonl_files, file_idx, result>>
    /\ UNCHANGED <<session_log, can_open, scan_pc, scan_idx, usage, found_any, scanned>>
    /\ UNCHANGED <<convVars, priceVars, loadVars, aggVars>>

AllNext ==
    \/ AllBegin
    \/ AllSkipPath
    \/ AllParsePath
    \/ ScanNext
    \/ AllInsert
    \/ AllReturn

\* a call of scan_all_sessions, by a process that has loaded ScanCatalog
AllInit ==
    /\ projects_dir \in {"no_home", "missing", "present"}
    /\ tree \in Trees
    /\ (projects_dir /= "present" => tree = {})
    /\ session_ids \in IdFilters
    /\ jsonl_files = <<>>
    /\ file_idx = 1
    /\ result = EmptyMap
    /\ all_pc = "start"
    /\ session_log = <<>>
    /\ can_open = FALSE
    /\ scan_pc = "idle"
    /\ scan_idx = 1
    /\ usage = DefaultUsage
    /\ found_any = FALSE
    /\ scanned = None
    /\ models = ScanCatalog
    /\ query = None
    /\ resolved = None
    /\ cost = None
    /\ ConvIdle
    /\ LoadIdle
    /\ AggIdle

(***************************************************************************)
(* The handler get_session_conversation (handlers.rs:564-623).             *)
(***************************************************************************)
DEFAULT_PAGE_SIZE == 50

\* ApiResponse::success(dto) and ApiResponse::error(message)
ApiSuccess(data) == [success |-> TRUE, data |-> Some(data)]
ApiError == [success |-> FALSE, data |-> None]

\* extract_transcript_path (handlers.rs:724-742): the value of the
\* frontmatter's transcript_path, unless it is N/A or empty
extract_transcript_path(content) ==
    IF /\ content.frontmatter
       /\ content.transcript_path /= None
       /\ Unwrap(content.transcript_path) \notin {"N/A", ""}
    THEN content.transcript_path
    ELSE None

\* params.get(..).and_then(|p| p.parse().ok()).unwrap_or(default)
\* (handlers.rs:610-614)
param_or(param, default) == UnwrapOr(param, default)

\* faulty variant: a missing transcript is reported as an error
without_transcript_Error == ApiError

\* handlers.rs:584-593 and 599-606: the answer when there is no transcript
without_transcript == ApiSuccess(ConversationDto(<<>>, 0, FALSE, 0, 0, FALSE))

\* the handler up to the call of parse_transcript_to_conversation and the
\* opening of the file (handlers.rs:564-616, 752)
HandleRequest ==
    /\ pc = "request"
    /\ IF ~request.session_readable
       THEN /\ api_response' = Some(ApiError)
            /\ pc' = "responded"
            /\ UNCHANGED <<page, page_size>>
       ELSE IF extract_transcript_path(request) = None \/ ~request.exists
       THEN /\ api_response' = Some(without_transcript)
            /\ pc' = "responded"
            /\ UNCHANGED <<page, page_size>>
       ELSE /\ page' = param_or(request.page, 0)
            /\ page_size' = param_or(request.page_size, DEFAULT_PAGE_SIZE)
            /\ pc' = IF request.opens THEN "read" ELSE "error"
            /\ api_response' = api_response
    /\ UNCHANGED <<log, idx, LoopState, final_messages, dto, request>>
    /\ UNCHANGED <<priceVars, loadVars, scanVars, aggVars>>

\* handlers.rs:616-622: the result of the call becomes the response
HandleResult ==
    /\ pc \in {"done", "error"}
    /\ api_response = None
    /\ api_response' = IF pc = "done" THEN Some(ApiSuccess(dto)) ELSE Some(ApiError)
    /\ UNCHANGED <<log, page, page_size, pc, idx, LoopState, final_messages, dto,
                   request>>
    /\ UNCHANGED <<priceVars, loadVars, scanVars, aggVars>>

HandlerNext == HandleRequest \/ ConvNext \/ HandleResult

\* the requests of the handler runs. They pass page_size explicitly: the
\* default lies beyond the scaled word.
TranscriptPaths == {None, Some("N/A"), Some(""), Some("/t.jsonl")}
Requests ==
    {Request(session_readable, frontmatter, transcript_path, exists, opens, p, ps) :
        session_readable \in BOOLEAN, frontmatter \in BOOLEAN,
        transcript_path \in TranscriptPaths, exists \in BOOLEAN, opens \in BOOLEAN,
        p \in {None, Some(0), Some(1)}, ps \in {Some(1), Some(2)}}
HandlerInit ==
    /\ request \in Requests
    /\ (request.opens => request.exists)
    /\ api_response = None
    /\ log \in PageLogs
    /\ page = 0
    /\ page_size = 0
    /\ pc = "request"
    /\ idx = 1
    /\ conversation_messages = <<>>
    /\ tool_results = EmptyMap
    /\ current_assistant_blocks = <<>>
    /\ current_assistant_timestamp = None
    /\ final_messages = <<>>
    /\ dto = NoDto
    /\ PriceIdle
    /\ LoadIdle
    /\ ScanIdle
    /\ AggIdle

vars == <<convVars, priceVars, loadVars, scanVars, aggVars>>

SpecConv == ConvInit /\ [][ConvNext]_vars
SpecPage == PageInit /\ [][ConvNext]_vars
SpecPrice == PriceInit /\ [][PriceNext]_vars
SpecLoad == LoadInit /\ [][LoadNext]_vars
SpecScan == ScanInit /\ [][ScanNext]_vars
SpecAgg == AggInit /\ [][AggNext]_vars
SpecHandler == HandlerInit /\ [][HandlerNext]_vars
SpecCache == CacheInit /\ [][CacheNext]_vars
SpecScanAll == AllInit /\ [][AllNext]_vars
\* the request is bounded by FETCH_TIMEOUT_SECS (pricing.rs:8, 80), so the
\* await of load ends, and nothing after it waits
SpecLoadFair == SpecLoad /\ WF_vars(LoadNext)

(***************************************************************************)
(* What the claims speak of: the transcript on one side, the reconstructed *)
(* conversation on the other.                                              *)
(***************************************************************************)
\* the second pass is over: final_messages is the whole conversation
Paired == pc \in {"paginate", "done", "panic"}
\* the line loop is over
Flushed == pc \in {"pair", "paginate", "done", "panic"}

IsUserLine(line) == line.kind = "json" /\ EntryType(line) \in {"user", "human"}
IsAssistantLine(line) == line.kind = "json" /\ EntryType(line) = "assistant"
ContentKind(line) ==
    IF IsSome(ContentVal(line)) THEN Unwrap(ContentVal(line)).kind ELSE "none"
IsUserArrayLine(line) == IsUserLine(line) /\ ContentKind(line) = "array"

\* the tool_use_ids of the tool_result blocks of the user/human records
LogResultIds ==
    UNION {{Unwrap(Unwrap(ContentVal(log[i])).blocks[j].tool_use_id) :
              j \in {k \in DOMAIN Unwrap(ContentVal(log[i])).blocks :
                       LET b == Unwrap(ContentVal(log[i])).blocks[k]
                       IN b.type = Some("tool_result") /\ IsSome(b.tool_use_id)}} :
           i \in {k \in DOMAIN log : IsUserArrayLine(log[k])}}

\* the places <<m, i>> of the blocks of the conversation, in document order
Places ==
    UNION {{<<m, i>> : i \in DOMAIN final_messages[m].content} :
           m \in DOMAIN final_messages}
BlockAt(pl) == final_messages[pl[1]].content[pl[2]]
Before(a, b) == a[1] < b[1] \/ (a[1] = b[1] /\ a[2] < b[2])
IsToolUseAt(pl) == BlockAt(pl).type = "tool_use"
IsToolResultAt(pl) == BlockAt(pl).type = "tool_result"
\* the first ToolUse block, in document order, that carries its id
IsFirstUseAt(pl) ==
    /\ IsToolUseAt(pl)
    /\ \A q \in Places :
         (IsToolUseAt(q) /\ BlockAt(q).tool_use_id = BlockAt(pl).tool_use_id)
            => ~Before(q, pl)
\* the block right after place pl is the ToolResult of its ToolUse
ResultFollows(pl) ==
    /\ pl[2] < Len(final_messages[pl[1]].content)
    /\ BlockAt(<<pl[1], pl[2] + 1>>).type = "tool_result"
    /\ BlockAt(<<pl[1], pl[2] + 1>>).tool_use_id = BlockAt(pl).tool_use_id
\* the block right before place pl is the ToolUse of its ToolResult
UseBefore(pl) ==
    /\ pl[2] > 1
    /\ BlockAt(<<pl[1], pl[2] - 1>>).type = "tool_use"
    /\ BlockAt(<<pl[1], pl[2] - 1>>).tool_use_id = BlockAt(pl).tool_use_id

(***************************************************************************)
(* C1. As claimed: every ToolUse block whose id occurs in a tool_result    *)
(* of the log is immediately followed by its ToolResult. (Refuted: a       *)
(* second ToolUse with the same id gets none.)                             *)
(***************************************************************************)
C1_EveryUseFollowed ==
    Paired =>
        \A pl \in Places :
            (IsToolUseAt(pl) /\ BlockAt(pl).tool_use_id \in LogResultIds)
                => ResultFollows(pl)

(***************************************************************************)
(* C1, amended: the first ToolUse block in document order that carries a   *)
(* tool_use_id occurring in a tool_result block of a user/human record is  *)
(* immediately followed, in the same assistant message, by a ToolResult    *)
(* block with that id.                                                     *)
(***************************************************************************)
C1_FirstUseFollowed ==
    Paired =>
        \A pl \in Places :
            (IsFirstUseAt(pl) /\ BlockAt(pl).tool_use_id \in LogResultIds)
                => /\ final_messages[pl[1]].role = "assistant"
                   /\ ResultFollows(pl)

\* a result attached to a first use, and a later use of the same id left bare
C1_Witness ==
    /\ pc = "done"
    /\ \E pl \in Places, q \in Places :
         /\ IsFirstUseAt(pl) /\ BlockAt(pl).tool_use_id \in LogResultIds
         /\ ResultFollows(pl)
         /\ IsToolUseAt(q) /\ Before(pl, q)
         /\ BlockAt(q).tool_use_id = BlockAt(pl).tool_use_id

(***************************************************************************)
(* C2. Consumption is at most once: the whole conversation holds at most   *)
(* one ToolResult block per tool_use_id, and it follows the first ToolUse  *)
(* block, in document order, with that id (so none of the later ones).     *)
(***************************************************************************)
C2_AtMostOnce ==
    Paired =>
        /\ \A pl \in Places, q \in Places :
             (IsToolResultAt(pl) /\ IsToolResultAt(q)
              /\ BlockAt(pl).tool_use_id = BlockAt(q).tool_use_id) => pl = q
        /\ \A pl \in Places :
             (IsToolUseAt(pl) /\ ResultFollows(pl)) => IsFirstUseAt(pl)

\* two ToolUse blocks with one id in different messages, one result in the log
C2_Witness ==
    /\ pc = "done"
    /\ \E pl \in Places, q \in Places :
         /\ pl[1] < q[1]
         /\ IsToolUseAt(pl) /\ IsToolUseAt(q)
         /\ BlockAt(pl).tool_use_id = BlockAt(q).tool_use_id
         /\ ResultFollows(pl) /\ ~ResultFollows(q)

(***************************************************************************)
(* C3. Tool results are never emitted on their own: the user messages of   *)
(* the conversation are exactly the non-blank string contents of the       *)
(* user/human records (an array content yields none), and every ToolResult *)
(* block sits in an assistant message right after the ToolUse block with   *)
(* its id; a result whose id matches no ToolUse is nowhere.                *)
(***************************************************************************)
RECURSIVE UserTextsOf(_)
UserTextsOf(lines) ==
    IF lines = <<>> THEN <<>>
    ELSE LET line == Head(lines)
         IN (IF IsUserLine(line) /\ ContentKind(line) = "string"
                /\ ~IsBlank(Unwrap(ContentVal(line)).text)
             THEN <<Message("user", <<Text(Unwrap(ContentVal(line)).text)>>,
                            line.timestamp)>>
             ELSE <<>>) \o UserTextsOf(Tail(lines))
IsUserMessage(m) == m.role = "user"
IsAssistantMessage(m) == m.role = "assistant"
\* the ids of the ToolUse blocks of the conversation
UsedIds == {BlockAt(pl).tool_use_id : pl \in {q \in Places : IsToolUseAt(q)}}

C3_NoStandaloneResults ==
    Paired =>
        /\ SelectSeq(final_messages, IsUserMessage) = UserTextsOf(log)
        /\ \A pl \in Places :
             IsToolResultAt(pl) =>
                /\ final_messages[pl[1]].role = "assistant"
                /\ UseBefore(pl)
        /\ \A pl \in Places :
             IsToolResultAt(pl) => BlockAt(pl).tool_use_id \in UsedIds

\* a user array with a matched and an unmatched result: no message for it,
\* the matched result attached, the unmatched one dropped
C3_Witness ==
    /\ pc = "done"
    /\ \E i \in DOMAIN log : IsUserArrayLine(log[i])
    /\ LogResultIds \ UsedIds /= {}
    /\ \E pl \in Places : IsToolResultAt(pl)
    /\ SelectSeq(final_messages, IsUserMessage) = <<>>

(***************************************************************************)
(* C4. Every maximal run of assistant records with no user/human record    *)
(* between them becomes at most one assistant message, whose Text and      *)
(* ToolUse blocks are the kept blocks of the run's records in record       *)
(* order: none lost, none twice, the run pending at the end included.      *)
(***************************************************************************)
IsKeptBlock(b) ==
    \/ b.type = Some("text") /\ IsSome(b.text) /\ ~IsBlank(Unwrap(b.text))
    \/ b.type = Some("tool_use")
\* the blocks kept from one record
KeptOf(line) ==
    IF ~IsAssistantLine(line) THEN <<>>
    ELSE IF ContentKind(line) = "array"
    THEN LET kept == SelectSeq(Unwrap(ContentVal(line)).blocks, IsKeptBlock)
         IN [i \in DOMAIN kept |-> AssistantBlock(kept[i])[1]]
    ELSE IF ContentKind(line) = "string" /\ ~IsBlank(Unwrap(ContentVal(line)).text)
    THEN <<Text(Unwrap(ContentVal(line)).text)>>
    ELSE <<>>
RECURSIVE RunBlocks(_)
\* the kept blocks of the lines before the first user/human record
RunBlocks(lines) ==
    IF lines = <<>> \/ IsUserLine(Head(lines)) THEN <<>>
    ELSE KeptOf(Head(lines)) \o RunBlocks(Tail(lines))
RECURSIVE AfterRun(_)
\* the lines from the first user/human record on
AfterRun(lines) ==
    IF lines = <<>> \/ IsUserLine(Head(lines)) THEN lines ELSE AfterRun(Tail(lines))
RECURSIVE RunsOf(_)
\* the runs of a transcript, one per stretch between user/human records
RunsOf(lines) ==
    <<RunBlocks(lines)>> \o
        (IF AfterRun(lines) = <<>> THEN <<>> ELSE RunsOf(Tail(AfterRun(lines))))
NonEmpty(s) == s /= <<>>
ExpectedRuns == SelectSeq(RunsOf(log), NonEmpty)
NotToolResult(b) == b.type /= "tool_result"
\* the contents of the assistant messages, ToolResult blocks left out
AssistantContents(messages) ==
    LET am == SelectSeq(messages, IsAssistantMessage)
    IN [i \in DOMAIN am |-> SelectSeq(am[i].content, NotToolResult)]

C4_RunsMerged ==
    /\ Flushed =>
         /\ AssistantContents(conversation_messages) = ExpectedRuns
         /\ current_assistant_blocks = <<>>
    /\ Paired => AssistantContents(final_messages) = ExpectedRuns

\* two assistant records with kept blocks, a non-user line between them, the
\* second one ending the stream: one message holding both records' blocks
C4_Witness ==
    /\ pc = "done"
    /\ Len(log) = 3
    /\ KeptOf(log[1]) /= <<>> /\ KeptOf(log[3]) /= <<>>
    /\ ~IsUserLine(log[2]) /\ ~IsAssistantLine(log[2])
    /\ AssistantContents(final_messages) = <<KeptOf(log[1]) \o KeptOf(log[3])>>

(***************************************************************************)
(* Pagination as the claims state it, in unbounded integers.               *)
(***************************************************************************)
\* the messages with indices in [p*ps, min(total, (p+1)*ps))
MathSlice(msgs, p, ps) ==
    IF p * ps >= Len(msgs) THEN <<>>
    ELSE SubSeq(msgs, p * ps + 1, Min(Len(msgs), (p + 1) * ps))

\* what a call for page p returns, the transcript and page_size being the state's
PageCall(p, overflow_checks) ==
    PaginateOutcome(final_messages, p, page_size, overflow_checks)
RECURSIVE ConcatPages(_, _, _)
\* the pages p, p+1, ..., last returned, one after the other
ConcatPages(p, last, overflow_checks) ==
    IF p > last THEN <<>>
    ELSE PageCall(p, overflow_checks).messages \o ConcatPages(p + 1, last, overflow_checks)

(***************************************************************************)
(* C5. As claimed: a page holds at most page_size messages, and the pages  *)
(* 0, 1, 2, ... of one page_size, concatenated, are the whole message list,*)
(* every message once and in order. (Refuted by the code: page_size = 0    *)
(* returns empty pages for ever; an overflowing page * page_size wraps or  *)
(* panics.)                                                                *)
(***************************************************************************)
C5_PagesPartition ==
    pc = "done" =>
        /\ Len(dto.messages) <= page_size
        /\ \A overflow_checks \in BOOLEAN :
             /\ \A p \in 0 .. Len(final_messages) : ~PageCall(p, overflow_checks).panic
             /\ ConcatPages(0, Len(final_messages), overflow_checks) = final_messages

(***************************************************************************)
(* C6. As claimed: for every page and page_size of the machine word the    *)
(* call returns exactly the messages with indices in                       *)
(* [page*page_size, min(total, (page+1)*page_size)), an empty list (and no *)
(* error or crash) when page*page_size >= total, and total_entries is the  *)
(* full count. (Refuted by the code: page * page_size is computed in       *)
(* usize.)                                                                 *)
(***************************************************************************)
C6_ExactSlice ==
    pc \in {"done", "panic"} =>
        /\ pc = "done"
        /\ dto.messages = MathSlice(final_messages, page, page_size)
        /\ dto.total_entries = Len(final_messages)

(***************************************************************************)
(* What the pricing claims speak of: the call made and the value returned. *)
(***************************************************************************)
Called == query /= None
Q == Unwrap(query)
\* the four token classes: input, output, cache creation, cache read
TokenClasses == 1 .. 4
TokensOf(q, c) ==
    CASE c = 1 -> q.input_tokens
      [] c = 2 -> q.output_tokens
      [] c = 3 -> q.cache_creation_tokens
      [] OTHER -> q.cache_read_tokens
BaseRate(pricing, c) ==
    CASE c = 1 -> pricing.input_cost_per_token
      [] c = 2 -> pricing.output_cost_per_token
      [] c = 3 -> pricing.cache_creation_input_token_cost
      [] OTHER -> pricing.cache_read_input_token_cost
AboveRate(pricing, c) ==
    CASE c = 1 -> pricing.input_cost_per_token_above_200k_tokens
      [] c = 2 -> pricing.output_cost_per_token_above_200k_tokens
      [] c = 3 -> pricing.cache_creation_input_token_cost_above_200k_tokens
      [] OTHER -> pricing.cache_read_input_token_cost_above_200k_tokens
\* only class c was charged in the call
OnlyClass(q, c) == \A d \in TokenClasses : d /= c => TokensOf(q, d) = 0

(***************************************************************************)
(* C7. Tiered pricing is continuous at 200,000 tokens: for a token class   *)
(* with a tiered rate, 200,000 tokens cost 200,000 times the base rate,    *)
(* and 200,000 + k tokens (k > 0) cost that plus k times the tiered rate.  *)
(***************************************************************************)
C7_ContinuousAtThreshold ==
    (Called /\ resolved /= None) =>
        \A c \in TokenClasses :
            LET pricing == models[Unwrap(resolved)]
                tokens == TokensOf(Q, c)
                base == UnwrapOr(BaseRate(pricing, c), 0)
                at_threshold == 200000 * base
            IN (OnlyClass(Q, c) /\ IsSome(AboveRate(pricing, c))) =>
                  /\ tokens = 200000 => cost = Some(at_threshold)
                  /\ tokens > 200000 =>
                        cost = Some(at_threshold
                                    + (tokens - 200000) * Unwrap(AboveRate(pricing, c)))

\* output tokens over the threshold, under a pricing whose tiered output rate
\* differs from its base rate
C7_Witness ==
    /\ Called /\ resolved /= None
    /\ OnlyClass(Q, 2) /\ Q.output_tokens > 200000
    /\ LET pricing == models[Unwrap(resolved)]
       IN /\ IsSome(pricing.output_cost_per_token)
          /\ IsSome(pricing.output_cost_per_token_above_200k_tokens)
          /\ pricing.output_cost_per_token
                /= pricing.output_cost_per_token_above_200k_tokens
          /\ cost = Some(200000 * Unwrap(pricing.output_cost_per_token)
                         + (Q.output_tokens - 200000)
                             * Unwrap(pricing.output_cost_per_token_above_200k_tokens))

(***************************************************************************)
(* C8. A model name that matches no key exactly, through no provider       *)
(* prefix and through no case-insensitive substring relation costs exactly *)
(* 0, whatever the token counts, and the call returns normally.            *)
(***************************************************************************)
SubstringRelated(key, name) ==
    \/ Contains(to_lowercase(key), to_lowercase(name))
    \/ Contains(to_lowercase(name), to_lowercase(key))
NoMatch(name) ==
    /\ name \notin DOMAIN models
    /\ \A i \in DOMAIN PROVIDER_PREFIXES : PROVIDER_PREFIXES[i] \o name \notin DOMAIN models
    /\ \A key \in DOMAIN models : ~SubstringRelated(key, name)

C8_UnknownModelCostsZero ==
    (Called /\ NoMatch(Q.model)) => (cost = Some(0) /\ resolved = None)

\* an unknown model charged tokens of two classes against a catalog of six
C8_Witness ==
    /\ Called /\ NoMatch(Q.model)
    /\ DOMAIN models = KeyUniverse
    /\ Q.input_tokens = 300000 /\ Q.output_tokens = 1
    /\ cost = Some(0)

(***************************************************************************)
(* C9. Resolution is first-match-wins: an exact key wins over everything;  *)
(* otherwise the candidate of the earliest provider prefix that is a key   *)
(* wins over later prefixes and over fuzzy matches; a fuzzy match is       *)
(* returned only when no exact and no prefixed key exists.                 *)
(***************************************************************************)
IsCandidate(key, name) ==
    \E i \in DOMAIN PROVIDER_PREFIXES : key = PROVIDER_PREFIXES[i] \o name

C9_FirstMatchWins ==
    Called =>
        LET name == Q.model
            keys == DOMAIN models
        IN /\ name \in keys => resolved = Some(name)
           /\ name \notin keys =>
                \A i \in DOMAIN PROVIDER_PREFIXES :
                    (/\ PROVIDER_PREFIXES[i] \o name \in keys
                     /\ \A j \in 1 .. (i - 1) : PROVIDER_PREFIXES[j] \o name \notin keys)
                        => resolved = Some(PROVIDER_PREFIXES[i] \o name)
           /\ (/\ resolved /= None
               /\ Unwrap(resolved) /= name
               /\ ~IsCandidate(Unwrap(resolved), name))
                 => /\ name \notin keys
                    /\ \A key \in keys : ~IsCandidate(key, name)
                    /\ SubstringRelated(Unwrap(resolved), name)

\* no exact key; the anthropic/, claude- and openai/ candidates and two fuzzy
\* keys are in the catalog: the anthropic/ candidate is returned
C9_Witness ==
    /\ Called /\ Q.model = NameS4
    /\ DOMAIN models = KeyUniverse \ {NameS4}
    /\ resolved = Some(KeyAnthropicS4)

(***************************************************************************)
(* C10. PricingData::load returns the catalog of exactly one source, the   *)
(* first that succeeds in the order remote fetch, cache file, embedded     *)
(* snapshot: the cache is consulted only after the fetch failed, the       *)
(* snapshot only after both failed, and the catalog returned is that one   *)
(* source's catalog, never a combination of two.                           *)
(***************************************************************************)
LoadReturned == load_pc = "loaded"
FetchSucceeded == Unwrap(response).status = "ok"
CacheReadable == config_dir /\ cache_file /= None /\ Unwrap(cache_file).valid
RemoteCatalog == parse_raw_data(Unwrap(response).body)
CacheCatalog == Unwrap(cache_file).models
EmbeddedCatalog == IF embedded.valid THEN embedded.models ELSE EmptyMap
Consulted(source) == \E i \in DOMAIN consulted : consulted[i] = source

C10_FirstSuccessWins ==
    LoadReturned =>
        /\ Consulted("remote")
        /\ Consulted("cache") => ~FetchSucceeded
        /\ Consulted("embedded") => (~FetchSucceeded /\ ~CacheReadable)
        /\ FetchSucceeded =>
              (models = RemoteCatalog /\ consulted = <<"remote">>)
        /\ (~FetchSucceeded /\ CacheReadable) =>
              (models = CacheCatalog /\ consulted = <<"remote", "cache">>)
        /\ (~FetchSucceeded /\ ~CacheReadable) =>
              (models = EmbeddedCatalog
               /\ consulted = <<"remote", "cache", "embedded">>)

\* the fetch timed out and the cache file was readable: its catalog is the
\* one returned, with none of the keys of the embedded snapshot
C10_Witness ==
    /\ LoadReturned
    /\ Unwrap(response).status = "timeout"
    /\ CacheReadable
    /\ embedded.valid
    /\ DOMAIN CacheCatalog = {KeyAnthropicS4, KeyClaudeS4}
    /\ DOMAIN EmbeddedCatalog = {KeyClaudeS4, KeyFuzzyS4}
    /\ models = CacheCatalog

(***************************************************************************)
(* C11. PricingData::load never reports a failure to its caller: whatever  *)
(* the fetch, the cache write, the cache read and the parse of the         *)
(* embedded snapshot come to, load completes and returns a catalog         *)
(* (possibly empty); after a successful fetch whose cache write failed it  *)
(* still returns the fetched catalog.                                      *)
(***************************************************************************)
IsCatalog(m) ==
    \A key \in DOMAIN m :
        DOMAIN m[key] = DOMAIN ModelPricing(None, None, None, None, None, None, None, None)
LoadNeverFails ==
    /\ load_pc /= "failed"
    /\ LoadReturned => IsCatalog(models)
    /\ (LoadReturned /\ FetchSucceeded) => models = RemoteCatalog
    /\ (response /= None /\ save_result = Some(FALSE)) =>
          (LoadReturned /\ models = RemoteCatalog)

C11_LoadAlwaysReturns ==
    /\ [](LoadNeverFails)
    /\ (load_pc = "start") ~> LoadReturned

\* the fetch succeeded with a catalog of two models, the cache write failed
\* half way, and load returned the two models
C11_Witness ==
    /\ LoadReturned
    /\ FetchSucceeded
    /\ save_result = Some(FALSE)
    /\ cache_file = Some(Corrupt)
    /\ models = RemoteCatalog
    /\ DOMAIN models = {NameS4, KeyAnthropicS4}

(***************************************************************************)
(* What the scanner claims speak of.                                       *)
(***************************************************************************)
ScanReturned == scan_pc = "done"
\* a record of type assistant that carries a message.usage object
IsUsageRecord(line) ==
    /\ line.readable /\ ~line.blank /\ line.json
    /\ line.type = "assistant"
    /\ line.message /= None
    /\ Unwrap(line.message).usage /= None
\* the usage field of a token class in a usage record, a missing field as 0
UsageField(line, c) ==
    LET msg_usage == Unwrap(Unwrap(line.message).usage)
    IN CASE c = 1 -> UnwrapOr(msg_usage.input_tokens, 0)
         [] c = 2 -> UnwrapOr(msg_usage.output_tokens, 0)
         [] c = 3 -> UnwrapOr(msg_usage.cache_creation_input_tokens, 0)
         [] OTHER -> UnwrapOr(msg_usage.cache_read_input_tokens, 0)
RECURSIVE SumOfField(_, _)
SumOfField(lines, c) ==
    IF lines = <<>> THEN 0
    ELSE (IF IsUsageRecord(Head(lines)) THEN UsageField(Head(lines), c) ELSE 0)
            + SumOfField(Tail(lines), c)
\* the counter of a token class in a session record
Counter(record, c) == TokensOf(record, c)

(***************************************************************************)
(* C12. For every session log, each of the four token counters of the      *)
(* session record equals the sum of the corresponding usage field over all *)
(* records of type assistant that carry a message.usage object, a missing  *)
(* field counted as zero.                                                  *)
(***************************************************************************)
C12_CountersAreSums ==
    (ScanReturned /\ scanned /= None) =>
        \A c \in TokenClasses :
            Counter(Unwrap(scanned), c) = SumOfField(session_log, c)

(***************************************************************************)
(* C13. parse_session_file yields a session record if and only if the file *)
(* contains at least one record of type assistant carrying a message.usage *)
(* object; a file with no such record, or one that cannot be opened,       *)
(* yields no record at all.                                                *)
(***************************************************************************)
HasUsageRecord ==
    \E i \in DOMAIN session_log : IsUsageRecord(session_log[i])

C13_RecordIffUsage ==
    ScanReturned => (scanned /= None <=> (can_open /\ HasUsageRecord))

(***************************************************************************)
(* C14. A session's total cost is the sum, over its contributing records,  *)
(* of the cost of that record's own four token counts priced with that     *)
(* record's own model: no session-wide model is used, and the 200,000      *)
(* threshold is applied to each record's counts, not to running totals.    *)
(***************************************************************************)
\* the records that contribute: the usage records the scan decodes
Contributes(line) == IsUsageRecord(line) /\ line.marker
\* the cost of n tokens of class c under a pricing
ClassCost(pricing, c, n) ==
    LET base == UnwrapOr(BaseRate(pricing, c), 0)
    IN IF n = 0 THEN 0
       ELSE IF n <= 200000 \/ AboveRate(pricing, c) = None THEN n * base
       ELSE 200000 * base + (n - 200000) * Unwrap(AboveRate(pricing, c))
\* the model a record is priced with: its own, "claude-sonnet" when it names none
RecordModel(line) == UnwrapOr(Unwrap(line.message).model, DefaultModel)
\* the costs a record may be given: its own counts under a pricing its own
\* model resolves to, 0 when it resolves to none
RecordCosts(line) ==
    LET keys == get_model_pricing(models, RecordModel(line))
    IN IF keys = {} THEN {0}
       ELSE {ClassCost(models[key], 1, UsageField(line, 1))
               + ClassCost(models[key], 2, UsageField(line, 2))
               + ClassCost(models[key], 3, UsageField(line, 3))
               + ClassCost(models[key], 4, UsageField(line, 4)) : key \in keys}
RECURSIVE SessionCosts(_)
SessionCosts(lines) ==
    IF lines = <<>> THEN {0}
    ELSE LET first == IF Contributes(Head(lines)) THEN RecordCosts(Head(lines)) ELSE {0}
         IN {a + b : a \in first, b \in SessionCosts(Tail(lines))}

AggReturned == agg_pc = "done"
\* the derived date of a session: the first 10 characters of first_timestamp
\* when they have the shape of a date, dashes in the fifth and eighth place
DerivedDate(session) ==
    IF session.first_timestamp = None THEN None
    ELSE LET ts == Unwrap(session.first_timestamp)
         IN IF Len(ts) >= 10 /\ ts[5] = "-" /\ ts[8] = "-"
            THEN Some(SubSeq(ts, 1, 10))
            ELSE None
\* the sessions a call counts
IsCounted(session) ==
    \/ date_filter = None
    \/ /\ DerivedDate(session) /= None
       /\ Unwrap(DerivedDate(session)) \in Unwrap(date_filter)
CountedIds == {id \in DOMAIN session_usages : IsCounted(session_usages[id])}
RECURSIVE SumOverSessions(_, _)
SumOverSessions(ids, c) ==
    IF ids = {} THEN 0
    ELSE LET id == CHOOSE x \in ids : TRUE
         IN TokensOf(session_usages[id], c) + SumOverSessions(ids \ {id}, c)
SummaryTotal(c) ==
    CASE c = 1 -> Unwrap(summary).total_input_tokens
      [] c = 2 -> Unwrap(summary).total_output_tokens
      [] c = 3 -> Unwrap(summary).total_cache_creation_tokens
      [] OTHER -> Unwrap(summary).total_cache_read_tokens

(***************************************************************************)
(* C15. aggregate_usage with a date filter counts exactly the sessions     *)
(* whose derived date is in the allow-list, and none without a derivable   *)
(* date; with no filter it counts every session; total_sessions and the    *)
(* four token totals are the count and the sums over those sessions.       *)
(***************************************************************************)
C15_CountsFilteredSessions ==
    /\ agg_pc /= "panic"
    /\ AggReturned =>
          /\ Unwrap(summary).total_sessions = Cardinality(CountedIds)
          /\ \A c \in TokenClasses : SummaryTotal(c) = SumOverSessions(CountedIds, c)

(***************************************************************************)
(* C16. The UsageSummary returned by aggregate_usage is the same for every *)
(* order in which the session records are visited: totals, total_sessions, *)
(* the daily_usage list and the model_distribution list (entries and       *)
(* order) do not depend on iteration order.                                *)
(***************************************************************************)
\* the summaries the call can return for its arguments, over every order of
\* the sessions and of the maps (release build)
RECURSIVE SummariesFrom(_, _, _, _)
SummariesFrom(sums, counts, days, remaining) ==
    IF remaining = {}
    THEN {UsageSummary(sums, model_distribution, daily_usage) :
            model_distribution \in sorted_model_distribution(counts),
            daily_usage \in sorted_daily_usage(days)}
    ELSE UNION {LET out == after_session(sums, counts, days, session_usages[id],
                                         date_filter, FALSE)
                IN IF out.panic THEN {}
                   ELSE SummariesFrom(out.totals, out.model_counts, out.daily_map,
                                      remaining \ {id}) :
                id \in remaining}
PossibleSummaries ==
    SummariesFrom(Totals(0, 0, 0, 0, 0, 0), EmptyMap, EmptyMap, DOMAIN session_usages)

C16_SameForEveryOrder ==
    AggReturned => \A other \in PossibleSummaries : other = Unwrap(summary)

(***************************************************************************)
(* C20. The daily_usage list of every UsageSummary has exactly one entry   *)
(* per distinct derived date among the counted sessions and is sorted      *)
(* strictly ascending by date.                                             *)
(***************************************************************************)
\* the date extract_date_from_timestamp derives for a session that is
\* aggregated without a panic
DateOf(session) == session_date_of(session).date
CountedDates ==
    {Unwrap(DateOf(session_usages[id])) :
        id \in {x \in DOMAIN session_usages :
                  /\ DateOf(session_usages[x]) /= None
                  /\ \/ date_filter = None
                     \/ Unwrap(DateOf(session_usages[x])) \in Unwrap(date_filter)}}
\* a < b as strings, position by position
DateBefore(a, b) ==
    \E k \in 1 .. Len(b) :
        /\ \A i \in 1 .. (k - 1) : i <= Len(a) /\ a[i] = b[i]
        /\ \/ k > Len(a)
           \/ char_rank(a[k]) < char_rank(b[k])

Responded == api_response /= None
\* the session can be read and names no transcript, or names one that is not
\* there
NoTranscriptPath ==
    \/ ~request.frontmatter
    \/ request.transcript_path \in {None, Some("N/A"), Some("")}
TranscriptMissing == request.session_readable /\ (NoTranscriptPath \/ ~request.exists)

C17_MissingTranscriptIsEmpty ==
    Responded =>
        LET answer == Unwrap(api_response)
        IN /\ TranscriptMissing =>
                /\ answer.success
                /\ Unwrap(answer.data).messages = <<>>
                /\ Unwrap(answer.data).total_entries = 0
                /\ ~Unwrap(answer.data).has_transcript
                /\ ~Unwrap(answer.data).has_more
           /\ (answer.success /\ ~TranscriptMissing) => Unwrap(answer.data).has_transcript

\* a session whose frontmatter names a transcript that is not there
C17_Witness ==
    /\ Responded
    /\ request.session_readable /\ request.frontmatter
    /\ request.transcript_path = Some("/t.jsonl")
    /\ ~request.exists
    /\ Len(log) > 0
    /\ Unwrap(api_response) = ApiSuccess(NoDto)

(***************************************************************************)
(* C18. Decoding a session log fails only when the file cannot be opened:  *)
(* a line that is empty, is not valid JSON or cannot be read is skipped    *)
(* without an error, and the result equals that of the log without those   *)
(* lines. Stated for the reconstruction: a call whose file opened never    *)
(* ends in an error, and a skipped line leaves the loop's state as it was. *)
(***************************************************************************)
\* the handler reaches the decoding and the transcript opens
FileOpened ==
    /\ request.session_readable
    /\ ~NoTranscriptPath
    /\ request.exists
    /\ request.opens
SkippedLine(line) == line \in {BlankLine, InvalidLine, UnreadableLine}
C18_FailsOnlyOnOpen ==
    /\ (pc = "error") => ~request.opens
    /\ (Responded /\ FileOpened /\ \A i \in DOMAIN log : SkippedLine(log[i])) =>
            Unwrap(api_response) = ApiSuccess(ConversationDto(<<>>, 0, TRUE, page, page_size, FALSE))

(***************************************************************************)
(* C19. For a model that resolves to a rate, calculate_cost is the sum     *)
(* over the four token classes of a cost computed from that class's own    *)
(* count alone: 0 for a count of 0; count * base when the count is at most *)
(* 200,000 or the class has no tiered rate; 200,000 * base + (count -      *)
(* 200,000) * tiered otherwise; a missing base rate counts as 0. Counts of *)
(* different classes are never added before the threshold comparison.      *)
(***************************************************************************)
C19_SumOfClassCosts ==
    (Called /\ resolved /= None) =>
        LET pricing == models[Unwrap(resolved)]
        IN cost = Some(ClassCost(pricing, 1, Q.input_tokens)
                       + ClassCost(pricing, 2, Q.output_tokens)
                       + ClassCost(pricing, 3, Q.cache_creation_tokens)
                       + ClassCost(pricing, 4, Q.cache_read_tokens))

\* two classes that are each within the threshold and together beyond it,
\* under a pricing whose tiered rates differ from the base rates
C19_Witness ==
    /\ Called /\ resolved /= None
    /\ Q.input_tokens > 0 /\ Q.input_tokens <= 200000
    /\ Q.output_tokens > 0 /\ Q.output_tokens <= 200000
    /\ Q.input_tokens + Q.output_tokens > 200000
    /\ LET pricing == models[Unwrap(resolved)]
       IN /\ IsSome(pricing.input_cost_per_token)
          /\ IsSome(pricing.output_cost_per_token)
          /\ IsSome(pricing.input_cost_per_token_above_200k_tokens)
          /\ IsSome(pricing.output_cost_per_token_above_200k_tokens)
          /\ pricing.input_cost_per_token
                /= pricing.input_cost_per_token_above_200k_tokens
          /\ cost = Some(Q.input_tokens * Unwrap(pricing.input_cost_per_token)
                         + Q.output_tokens * Unwrap(pricing.output_cost_per_token))

(***************************************************************************)
(* C21. The timestamp of every emitted assistant message is the first-seen *)
(* timestamp of the accumulator flushed into it: the timestamp of the      *)
(* first timestamp-bearing assistant record that arrived after the most    *)
(* recent preceding user/human record (or after the start of the log),     *)
(* never that of an assistant record from before that user/human record.   *)
(***************************************************************************)
\* the blocks an assistant record adds to the accumulator
BlocksOfRecord(line) ==
    LET content_val == ContentVal(line)
        kind == IF IsSome(content_val) THEN Unwrap(content_val).kind ELSE "none"
    IN CASE kind = "array" -> PushAssistantBlocks(Unwrap(content_val).blocks, <<>>)
         [] kind = "string" /\ ~IsBlank(Unwrap(content_val).text) ->
                <<Text(Unwrap(content_val).text)>>
         [] OTHER -> <<>>
\* the timestamps of the assistant messages, when every user/human record
\* starts a new accumulator: first_seen is the first timestamp among the
\* assistant records since then, pending says whether they left any block
RECURSIVE AccumulatorTimestamps(_, _, _)
AccumulatorTimestamps(lines, pending, first_seen) ==
    LET emitted == IF pending THEN <<first_seen>> ELSE <<>>
    IN IF lines = <<>> THEN emitted
       ELSE LET line == Head(lines)
                type == IF line.kind = "json" THEN EntryType(line) ELSE ""
            IN CASE type \in {"user", "human"} ->
                       emitted \o AccumulatorTimestamps(Tail(lines), FALSE, None)
                 [] type = "assistant" ->
                       AccumulatorTimestamps(Tail(lines),
                                             pending \/ BlocksOfRecord(line) /= <<>>,
                                             IF first_seen = None THEN line.timestamp
                                             ELSE first_seen)
                 [] OTHER -> AccumulatorTimestamps(Tail(lines), pending, first_seen)
\* the timestamps of the assistant messages of a list, in order
RECURSIVE AssistantTimestamps(_)
AssistantTimestamps(messages) ==
    IF messages = <<>> THEN <<>>
    ELSE (IF Head(messages).role = "assistant" THEN <<Head(messages).timestamp>> ELSE <<>>)
         \o AssistantTimestamps(Tail(messages))
C21_FirstSeenTimestamp ==
    (pc = "pair") =>
        AssistantTimestamps(conversation_messages) = AccumulatorTimestamps(log, FALSE, None)

(***************************************************************************)
(* C22. The session record's first_timestamp is the timestamp of the first *)
(* record in file order, among the records eligible to contribute usage    *)
(* (type assistant carrying a message.usage object), that has a timestamp; *)
(* once set it is never replaced by the timestamp of a later record.       *)
(***************************************************************************)
RECURSIVE FirstEligibleTimestamp(_)
FirstEligibleTimestamp(lines) ==
    IF lines = <<>> THEN None
    ELSE IF IsUsageRecord(Head(lines)) /\ IsSome(Head(lines).timestamp)
    THEN Head(lines).timestamp
    ELSE FirstEligibleTimestamp(Tail(lines))
C22_FirstEligibleTimestamp ==
    (ScanReturned /\ scanned /= None) =>
        Unwrap(scanned).first_timestamp = FirstEligibleTimestamp(session_log)

(***************************************************************************)
(* C23. first_timestamp is the earliest timestamp seen in the session: no  *)
(* assistant record of the session file carries a timestamp earlier than   *)
(* the session record's first_timestamp, whatever the order of the records *)
(* in the file.                                                            *)
(***************************************************************************)
IsAssistantRecord(line) ==
    line.readable /\ ~line.blank /\ line.json /\ line.type = "assistant"
C23_EarliestTimestamp ==
    (ScanReturned /\ scanned /= None /\ IsSome(Unwrap(scanned).first_timestamp)) =>
        \A i \in DOMAIN session_log :
            (IsAssistantRecord(session_log[i]) /\ IsSome(session_log[i].timestamp)) =>
                ~str_less(Unwrap(session_log[i].timestamp),
                          Unwrap(Unwrap(scanned).first_timestamp))

(***************************************************************************)
(* C24. In model_distribution, each model's count is the sum of that       *)
(* model's call counts over the counted sessions, and its cost the sum     *)
(* over the counted sessions of session_cost * (the model's calls in the   *)
(* session / all calls in the session); so the model costs sum to the      *)
(* summary's total_cost when every counted session has a recorded call.    *)
(***************************************************************************)
CallsOf(session, model) ==
    IF model \in DOMAIN session.model_calls THEN session.model_calls[model] ELSE 0
AllCallsOf(session) == CallsOf(session, NameS4) + CallsOf(session, NameX)
\* session_cost * (calls / all calls): the number whose product with all
\* calls is session_cost * calls
CostShare(session, model) ==
    IF CallsOf(session, model) = 0 THEN 0
    ELSE CHOOSE share \in 0 .. session.total_cost_usd :
            share * AllCallsOf(session) = session.total_cost_usd * CallsOf(session, model)
RECURSIVE CallsOverSessions(_, _)
CallsOverSessions(ids, model) ==
    IF ids = {} THEN 0
    ELSE LET id == CHOOSE x \in ids : TRUE
         IN CallsOf(session_usages[id], model) + CallsOverSessions(ids \ {id}, model)
RECURSIVE SharesOverSessions(_, _)
SharesOverSessions(ids, model) ==
    IF ids = {} THEN 0
    ELSE LET id == CHOOSE x \in ids : TRUE
         IN CostShare(session_usages[id], model) + SharesOverSessions(ids \ {id}, model)
RECURSIVE SumOfCosts(_)
SumOfCosts(entries) ==
    IF entries = <<>> THEN 0
    ELSE Head(entries).total_cost_usd + SumOfCosts(Tail(entries))
C24_ModelDistribution ==
    AggReturned =>
        LET model_distribution == Unwrap(summary).model_distribution
            used == {model \in {NameS4, NameX} :
                        \E id \in CountedIds : model \in DOMAIN session_usages[id].model_calls}
        IN /\ {model_distribution[i].model : i \in DOMAIN model_distribution} = used
           /\ Len(model_distribution) = Cardinality(used)
           /\ \A i \in DOMAIN model_distribution :
                 LET entry == model_distribution[i]
                 IN /\ entry.count = CallsOverSessions(CountedIds, entry.model)
                    /\ entry.total_cost_usd = SharesOverSessions(CountedIds, entry.model)
           /\ (\A id \in CountedIds : AllCallsOf(session_usages[id]) > 0) =>
                 SumOfCosts(model_distribution) = Unwrap(summary).total_cost_usd

\* two counted sessions that share a model, one of them with two models
C24_Witness ==
    /\ AggReturned
    /\ Cardinality(CountedIds) = 2
    /\ \E id \in CountedIds : session_usages[id].model_calls = Calls(1, 1)
    /\ \E id \in CountedIds : session_usages[id].model_calls = Calls(2, 0)
    /\ Unwrap(summary).model_distribution
         = <<ModelUsageCount(NameS4, 3, 24), ModelUsageCount(NameX, 1, 12)>>
    /\ Unwrap(summary).total_cost_usd = 36

(***************************************************************************)
(* C25. scan_all_sessions returns exactly one record for each session log  *)
(* file under the scanned tree (restricted to the requested session ids    *)
(* when a filter is given) that contains at least one usage-bearing        *)
(* record: a file that fails to open or has no usage does not abort the    *)
(* scan or remove other files' records, and no usage-bearing file's record *)
(* is dropped or replaced by another file's record.                        *)
(***************************************************************************)
AllReturned == all_pc = "done"
\* the session log files that are to have a record
UsageBearing(file) ==
    /\ file.extension = "jsonl"
    /\ file.openable
    /\ \E i \in DOMAIN file.lines : IsUsageRecord(file.lines[i])
    /\ session_ids /= None => (file.stem /= None /\ Unwrap(file.stem) \in Unwrap(session_ids))
\* the record is the file's: its counters are the sums over the file's records
RecordOf(record, file) ==
    \A c \in TokenClasses : Counter(record, c) = SumOfField(file.lines, c)
C25_OneRecordPerFile ==
    /\ scan_pc /= "panic"
    /\ AllReturned =>
          LET expected == {file \in tree : UsageBearing(file)}
          IN /\ Cardinality(DOMAIN result) = Cardinality(expected)
             /\ \A file \in expected :
                   /\ file.stem /= None
                   /\ Unwrap(file.stem) \in DOMAIN result
                   /\ RecordOf(result[Unwrap(file.stem)], file)

(***************************************************************************)
(* C26. get_model_pricing is deterministic except in the fuzzy step: for a *)
(* fixed catalog and model name, two resolutions return the same rate      *)
(* whenever an exact or prefixed key exists or at most one catalog key is  *)
(* in a case-insensitive substring relation with the name; they can differ *)
(* only when the fuzzy step is reached and two or more keys match.         *)
(***************************************************************************)
\* the rate a resolution returns: None, or the pricing of the key it picked
RateOf(keys_or_none) ==
    IF keys_or_none = None THEN None ELSE Some(models[Unwrap(keys_or_none)])
\* the rates another resolution of the same name on the same catalog may return
OtherResolutions(name) ==
    LET keys == get_model_pricing(models, name)
    IN IF keys = {} THEN {None} ELSE {Some(models[key]) : key \in keys}
ExactOrPrefixed(name) ==
    \/ name \in DOMAIN models
    \/ \E key \in DOMAIN models : IsCandidate(key, name)
RelatedKeys(name) == {key \in DOMAIN models : SubstringRelated(key, name)}
C26_DeterministicButFuzzy ==
    Called =>
        \A other \in OtherResolutions(Q.model) :
            other /= RateOf(resolved) =>
                /\ ~ExactOrPrefixed(Q.model)
                /\ Cardinality(RelatedKeys(Q.model)) >= 2

\* the fuzzy step is reached with one key that matches
C26_Witness ==
    /\ Called
    /\ ~ExactOrPrefixed(Q.model)
    /\ RelatedKeys(Q.model) = {KeyFuzzyS4}
    /\ resolved = Some(KeyFuzzyS4)
    /\ OtherResolutions(Q.model) = {Some(RatesOf(KeyFuzzyS4))}

(***************************************************************************)
(* C27. The local pricing cache file is written only as a side effect of a *)
(* successful remote fetch, and then with the catalog that load returns;   *)
(* when the remote fetch fails (load falls back to the cache or to the     *)
(* embedded snapshot) the cache file is left unchanged.                    *)
(***************************************************************************)
C27_CacheWrittenOnFetch ==
    [][cache_file' /= cache_file =>
          /\ Unwrap(response').status = "ok"
          /\ cache_file' = Some(FileOf(models'))]_vars

(***************************************************************************)
(* C28. When several process instances run PricingData::load concurrently  *)
(* and write the cache file, last-writer-wins holds: after all writers     *)
(* finish, the cache file contains exactly the complete catalog written by *)
(* one of them (never a mixture or a truncated file), and a process that   *)
(* reads the cache while another writes it still ends its load with a      *)
(* complete catalog from one source.                                       *)
(***************************************************************************)
AllFinished == \A p \in Procs : proc[p].pc = "returned"
Writers == {p \in Procs : proc[p].source = "remote"}
C28_LastWriterWins ==
    /\ (AllFinished /\ Writers /= {}) =>
          \E p \in Writers : disk = Some(TextOf(Unwrap(proc[p].catalog)))
    /\ \A p \in Procs :
          proc[p].pc = "returned" =>
              /\ proc[p].catalog /= None
              /\ proc[p].source \in {"remote", "cache", "embedded"}

(***************************************************************************)
(* C29. A client that requests pages 0, 1, 2, ... of a transcript with a   *)
(* fixed page_size and stops at the first response with has_more = false   *)
(* always terminates, and has then received every message: has_more is     *)
(* true exactly when a later page holds at least one message.              *)
(***************************************************************************)
\* the client's walk from page p with at most `requests` requests left:
\* whether it met has_more = false, and the messages it received
RECURSIVE ClientWalk(_, _, _)
ClientWalk(p, requests, overflow_checks) ==
    IF requests = 0 THEN [stopped |-> FALSE, received |-> <<>>]
    ELSE LET answer == PageCall(p, overflow_checks)
         IN IF answer.panic THEN [stopped |-> FALSE, received |-> <<>>]
            ELSE IF ~answer.has_more THEN [stopped |-> TRUE, received |-> answer.messages]
            ELSE LET rest == ClientWalk(p + 1, requests - 1, overflow_checks)
                 IN [stopped |-> rest.stopped,
                     received |-> answer.messages \o rest.received]
\* a page after the one asked for holds a message
LaterPageHolds ==
    \E q \in (page + 1) .. (page + Len(final_messages) + 1) :
        MathSlice(final_messages, q, page_size) /= <<>>
C29_ClientTerminates ==
    pc = "done" =>
        /\ \A overflow_checks \in BOOLEAN :
              LET walk == ClientWalk(0, Len(final_messages) + 1, overflow_checks)
              IN walk.stopped /\ walk.received = final_messages
        /\ (page * page_size < Len(final_messages)) => (dto.has_more <=> LaterPageHolds)

(***************************************************************************)
(* C30. In every UsageSummary the per-day breakdown is consistent with the *)
(* totals: the session_count, the four token counts and the cost summed    *)
(* over daily_usage never exceed total_sessions and the corresponding      *)
(* totals, and they are equal to them whenever a date filter is active or  *)
(* every counted session has a derivable date.                             *)
(***************************************************************************)
\* the columns of a day and of the totals: 1..4 the token counts, 5 the
\* cost, 6 the sessions
SummaryColumns == 1 .. 6
DayColumn(day, c) ==
    CASE c = 1 -> day.input_tokens
      [] c = 2 -> day.output_tokens
      [] c = 3 -> day.cache_creation_tokens
      [] c = 4 -> day.cache_read_tokens
      [] c = 5 -> day.total_cost_usd
      [] OTHER -> day.session_count
TotalColumn(c) ==
    CASE c \in TokenClasses -> SummaryTotal(c)
      [] c = 5 -> Unwrap(summary).total_cost_usd
      [] OTHER -> Unwrap(summary).total_sessions
RECURSIVE SumOverDays(_, _)
SumOverDays(days, c) ==
    IF days = <<>> THEN 0
    ELSE DayColumn(Head(days), c) + SumOverDays(Tail(days), c)
\* a date filter is active or every counted session has a date
EveryCountedSessionDated ==
    \/ date_filter /= None
    \/ \A id \in DOMAIN session_usages : DateOf(session_usages[id]) /= None
C30_DailyWithinTotals ==
    AggReturned =>
        \A c \in SummaryColumns :
            LET over_days == SumOverDays(Unwrap(summary).daily_usage, c)
            IN /\ over_days <= TotalColumn(c)
               /\ EveryCountedSessionDated => over_days = TotalColumn(c)

====
